---------------------------- MODULE Spec2Model ----------------------------
(***************************************************************************)
(* Model of the comparison engines of the custom_evaluators repository:    *)
(*   - src/impress_test_evaluator.py : the presentation comparator with    *)
(*     content-based (fuzzy) shape matching;                               *)
(*   - src/writer_test_evaluator.py  : the word-document comparator with   *)
(*     merge-then-compare run formatting.                                  *)
(*                                                                         *)
(* Python values are modelled as follows.  None is the string "None" and   *)
(* the tri-state flags of a font are the strings "None", "False", "True".  *)
(* Texts are sequences of one-character strings, so that strip, substring  *)
(* and whitespace handling are computed and not assumed ("LF" and "TAB"    *)
(* stand for the line feed and the tabulator).  Python's 0-based indices   *)
(* are 1-based here; -1 is still "no index".                               *)
(* The float comparison  abs_diff / max(...) <= tolerance  is modelled by  *)
(* the exact rational comparison  abs_diff * 1000 <= permille * max(...):  *)
(* for operands below 2^31 the quotient differs from 5/1000 by at least    *)
(* 1/(200 * 2^31) whenever it differs at all, far more than the rounding   *)
(* error of an IEEE double division (2^-60 near 0.005), so both agree.     *)
(*                                                                         *)
(* The module holds ten machines that share no state:                      *)
(*   SpecTol   the tolerance comparator on pairs of geometry values,       *)
(*   SpecRun   the per-run checks of compare_text_shape and of             *)
(*             compare_table_shape on pairs of runs,                       *)
(*   SpecCmp   compare_pptx_files, slide by slide, on two presentations,   *)
(*   SpecMerge merge_consecutive_runs on one paragraph's run list,         *)
(*   SpecDocx  merge_consecutive_runs / compare_runs_semantic on two       *)
(*             paragraphs' run lists,                                      *)
(*   SpecMain  the main block of the word-document evaluator script on a   *)
(*             golden and a candidate document,                            *)
(*   SpecPair  the shape checks on one slide pair whose last shapes        *)
(*             differ in position, image, text or bullets,                 *)
(*   SpecFind  find_matching_shape on one target and one candidate list,   *)
(*   SpecBatch the batch loop of main over the test files, with the        *)
(*             module-level mismatch log,                                  *)
(*   SpecFill  the shape checks of the fill/outline-aware comparator       *)
(*             (src/temp_refactored_2.py) on one shape pair.               *)
(* Each specification keeps the other machines' variables idle.            *)
(***************************************************************************)
EXTENDS Integers, Sequences, FiniteSets, TLC

VARIABLES
    \* ---- tolerance comparator (is_approximately_equal) ----
    val1, val2,        \* the two numbers handed to is_approximately_equal
    tolPc,             \* "call" before the call, "ret" after it
    approx,            \* the verdict (meaningful when tolPc = "ret")
    \* ---- per-run checks of the presentation engine ----
    run1, run2,        \* a test run and the golden run it is zipped with
    runReason,         \* "unset", or what the run checks report ("ok" or a mismatch)
    cellReason,        \* the same for the run checks of a table cell
    \* ---- merge_consecutive_runs of the word-document engine ----
    mergeIn,           \* runs_formatting of one extracted paragraph
    mergeOut,          \* merge_consecutive_runs(mergeIn)
    mergeAgain,        \* merge_consecutive_runs(mergeOut)
    mergePc,           \* "runs", "merged", "remerged"
    \* ---- compare_runs_semantic of the word-document engine ----
    golden_runs,       \* runs_formatting of the golden paragraph
    actual_runs,       \* runs_formatting of the candidate paragraph
    editLog,           \* the kinds of edits that turned the golden runs into the candidate's
    docxCode,          \* "unset", "MATCH" or the failure code compare_runs_semantic returns
    \* ---- compare_pptx_files of the presentation engine ----
    nSlides1, nSlides2, \* len(prs1.slides), len(prs2.slides)
    slideIdx,          \* slide_idx of the loop over the zipped slides
    cmpPc,             \* "start", "header", "shapes", "next", "done"
    shapes1, shapes2,  \* list(slide1.shapes), list(slide2.shapes)
    fwd,               \* compare_pptx_files(file1, file2): [result, log], result -1 while running
    rev,               \* compare_pptx_files(file2, file1) on the same two files
    pairing,           \* golden indices find_matching_shape returned for the test shapes of the slide
    sameDoc,           \* history: the two files are the same so far
    permDoc,           \* history: every slide so far differs at most in shape order
    unreadable,        \* history: some picture on a slide so far has an unreadable image
    \* ---- the main block of the word-document evaluator script ----
    actual_doc,        \* what the extractors return for the candidate document
    golden_doc,        \* what the extractors return for the golden document
    doc_found,         \* os.path.exists(doc_path)
    golden_fetched,    \* urlretrieve(golden_url, golden_path) returned
    mainPc,            \* "load", "paragraphs", "structure", "comments", "success", "exit"
    para_i,            \* i of the loop over the paragraphs
    stdout,            \* the result codes printed so far
    \* ---- the shape checks on one slide pair differing in the last shape ----
    pairPre,           \* the shapes that precede the compared pair on both slides
    pairTest,          \* the last shape of the test slide
    pairGolden,        \* the last shape of the golden slide
    pairOut,           \* [result, log] of the shape checks of the slide pair
    pairPc,            \* "slide", "done"
    pairBlob1,         \* the XML of the test slide part can be decoded and parsed
    pairBlob2,         \* the same for the golden slide part
    \* ---- find_matching_shape on its own ----
    findTarget,        \* target_shape
    findCands,         \* candidate_shapes
    findUsed,          \* used_indices
    findIdx,           \* the index find_matching_shape returns, -1 for (None, -1)
    findPc,            \* "call", "ret"
    \* ---- the batch loop of main (presentation evaluator) ----
    mismatch_log,      \* the module-level list log_mismatch appends to
    batchFiles,        \* the number of test files found
    batchDone,         \* history: what the comparison of every file so far did
    batchReports,      \* (result, reason) run_evaluator returned for every file so far
    batchPc,           \* "loop", "exit"
    \* ---- the fill/outline-aware comparator on one shape pair ----
    fillTest,          \* the test shape with what the fill expressions find in it
    fillGolden,        \* the golden shape, likewise
    fillOut,           \* [result, log] of the shape checks of the slide pair
    fillPc             \* "slide", "done"

tolVars == <<val1, val2, tolPc, approx>>
runVars == <<run1, run2, runReason, cellReason>>
mergeVars == <<mergeIn, mergeOut, mergeAgain, mergePc>>
docxVars == <<golden_runs, actual_runs, editLog, docxCode>>
cmpVars == <<nSlides1, nSlides2, slideIdx, cmpPc, shapes1, shapes2,
             fwd, rev, pairing, sameDoc, permDoc, unreadable>>
mainVars == <<actual_doc, golden_doc, doc_found, golden_fetched, mainPc, para_i, stdout>>
pairVars == <<pairPre, pairTest, pairGolden, pairOut, pairPc, pairBlob1, pairBlob2>>
findVars == <<findTarget, findCands, findUsed, findIdx, findPc>>
batchVars == <<mismatch_log, batchFiles, batchDone, batchReports, batchPc>>
fillVars == <<fillTest, fillGolden, fillOut, fillPc>>
vars == <<val1, val2, tolPc, approx, run1, run2, runReason, cellReason,
          mergeIn, mergeOut, mergeAgain, mergePc,
          golden_runs, actual_runs, editLog, docxCode,
          nSlides1, nSlides2, slideIdx, cmpPc, shapes1, shapes2,
          fwd, rev, pairing, sameDoc, permDoc, unreadable,
          actual_doc, golden_doc, doc_found, golden_fetched, mainPc, para_i, stdout,
          pairPre, pairTest, pairGolden, pairOut, pairPc, pairBlob1, pairBlob2,
          findTarget, findCands, findUsed, findIdx, findPc,
          mismatch_log, batchFiles, batchDone, batchReports, batchPc,
          fillTest, fillGolden, fillOut, fillPc>>

None == "None"

Abs(x) == IF x < 0 THEN -x ELSE x
Max(x, y) == IF x >= y THEN x ELSE y

\* The sequences over S of length at most n.
SeqsUpTo(S, n) == UNION {[1..k -> S] : k \in 0..n}

(***************************************************************************)
(* Text helpers (str.strip, the "in" operator, re.sub(r'\s+', ' ', ...))   *)
(***************************************************************************)

IsSpace(c) == c \in {" ", "LF", "TAB"}

RECURSIVE LStrip(_)
LStrip(t) == IF t # <<>> /\ IsSpace(Head(t)) THEN LStrip(Tail(t)) ELSE t

RECURSIVE RStrip(_)
RStrip(t) ==
    IF t # <<>> /\ IsSpace(t[Len(t)]) THEN RStrip(SubSeq(t, 1, Len(t) - 1)) ELSE t

\* str.strip()
Strip(t) == LStrip(RStrip(t))

\* needle in hay
Contains(hay, needle) ==
    \E i \in 1..(Len(hay) - Len(needle) + 1) :
        SubSeq(hay, i, i + Len(needle) - 1) = needle

\* re.sub(r'\s+', ' ', text): every maximal whitespace run becomes one space.
RECURSIVE CollapseSpaces(_)
CollapseSpaces(t) ==
    IF t = <<>> THEN <<>>
    ELSE IF IsSpace(Head(t))
         THEN <<" ">> \o CollapseSpaces(LStrip(t))
         ELSE <<Head(t)>> \o CollapseSpaces(Tail(t))

normalize_cell_text(text) == Strip(CollapseSpaces(text))

\* sep.join(parts)
RECURSIVE Join(_, _)
Join(parts, sep) ==
    IF parts = <<>> THEN <<>>
    ELSE IF Len(parts) = 1 THEN parts[1]
    ELSE parts[1] \o sep \o Join(Tail(parts), sep)

(***************************************************************************)
(* Tolerance comparator                                                    *)
(***************************************************************************)

\* The absolute tolerance in EMU.
AbsToleranceEMU == 1000
\* tolerance=0.005 of the signature, in thousandths.
DefaultTolerance == 5
\* tolerance=0.01 of the picture border width check, in thousandths.
BorderTolerance == 10
\* Tolerances are fractions of 1000.
TolScale == 1000

\* Mutant: the absolute tolerance compared with < instead of <=.
is_approximately_equal_strict(v1, v2, tolerance) ==
    IF v1 = v2 THEN TRUE
    ELSE IF v1 = 0 /\ v2 = 0 THEN TRUE
    ELSE IF Abs(v1 - v2) < AbsToleranceEMU THEN TRUE
    ELSE IF v1 = 0 \/ v2 = 0 THEN FALSE
    ELSE Abs(v1 - v2) * TolScale <= tolerance * Max(Abs(v1), Abs(v2))

\* Mutant: the percentage taken relative to the first operand, not the larger.
is_approximately_equal_rel_first(v1, v2, tolerance) ==
    IF v1 = v2 THEN TRUE
    ELSE IF v1 = 0 /\ v2 = 0 THEN TRUE
    ELSE IF Abs(v1 - v2) <= AbsToleranceEMU THEN TRUE
    ELSE IF v1 = 0 \/ v2 = 0 THEN FALSE
    ELSE Abs(v1 - v2) * TolScale <= tolerance * Abs(v1)

is_approximately_equal(v1, v2, tolerance) ==
    IF v1 = v2 THEN TRUE
    ELSE IF v1 = 0 /\ v2 = 0 THEN TRUE
    ELSE LET abs_diff == Abs(v1 - v2) IN
         IF abs_diff <= AbsToleranceEMU THEN TRUE
         ELSE IF v1 = 0 \/ v2 = 0 THEN FALSE
         ELSE abs_diff * TolScale <= tolerance * Max(Abs(v1), Abs(v2))

\* Geometry values (EMU) the comparator is exercised on: zero, values around
\* the absolute tolerance, and values around the point where 1001 EMU is
\* 0.5% of the operand.
GeomValues ==
    {-300000, -1001, -1000, -500, 0, 1, 500, 1000, 1001, 2000,
     199198, 199199, 200000, 200199, 200200, 200201, 300000}

\* Offsets of the second operand from the first.
GeomDeltas == {-1001, -1000, 1000, 1001}

TolInit ==
    /\ val1 \in GeomValues
    /\ val2 \in GeomValues \cup {val1 + d : d \in GeomDeltas}
    /\ tolPc = "call"
    /\ approx = FALSE

TolIdle ==
    /\ val1 = 0
    /\ val2 = 0
    /\ tolPc = "idle"
    /\ approx = FALSE

\* A geometry check calls is_approximately_equal(val1, val2).
TolEval ==
    /\ tolPc = "call"
    /\ approx' = is_approximately_equal(val1, val2, DefaultTolerance)
    /\ tolPc' = "ret"
    /\ UNCHANGED <<val1, val2>>

(***************************************************************************)
(* Per-run checks of compare_text_shape                                    *)
(***************************************************************************)

TriState == {"None", "False", "True"}

\* Mutant: None is identified with every value.
fonts_effectively_equal_none_any(v1, v2) ==
    v1 = v2 \/ v1 = "None" \/ v2 = "None"

\* treat_none_as_false keeps its default True at every call site.
fonts_effectively_equal(v1, v2) ==
    IF v1 = v2 THEN TRUE
    ELSE (v1 = "None" \/ v1 = "False") /\ (v2 = "None" \/ v2 = "False")

\* hasattr(font.color, "rgb"): only an RGB colour has the attribute, a theme
\* colour or no colour raises AttributeError inside the property.
HasRgb(color) == color \notin {"None", "theme"}

\* The underline check of compare_text_shape.
text_underline_mismatch(u1, u2) ==
    IF u1 # u2
    THEN IF u1 # "None" /\ u2 # "None" THEN TRUE
         ELSE (u1 = "None" /\ u2 = "True") \/ (u1 = "True" /\ u2 = "None")
    ELSE FALSE

\* The checks of one zipped run pair, in source order, up to the bullets
\* check; the result is the first mismatch or "ok".
compare_text_run(r1, r2) ==
    IF r1.name # r2.name THEN "Font name mismatch"
    ELSE IF r1.size # r2.size THEN "Font size mismatch"
    ELSE IF ~fonts_effectively_equal(r1.bold, r2.bold) THEN "Font bold mismatch"
    ELSE IF ~fonts_effectively_equal(r1.italic, r2.italic) THEN "Font italic mismatch"
    ELSE IF HasRgb(r1.color) /\ HasRgb(r2.color) /\ r1.color # r2.color
         THEN "Font color mismatch"
    ELSE IF text_underline_mismatch(r1.underline, r2.underline)
         THEN "Font underline mismatch"
    ELSE IF r1.strike # r2.strike THEN "Strikethrough mismatch"
    ELSE "ok"

\* The runs the per-run machine draws its pairs from.
PptxRuns ==
    [text : {<<"a">>},
     name : {"None", "Arial"},
     size : {"None", "12"},
     bold : TriState,
     italic : TriState,
     underline : TriState,
     color : {"None", "FF0000"},
     strike : {"noStrike", "sngStrike"}]

PlainRun(text) ==
    [text |-> text, name |-> "None", size |-> "None", bold |-> "None",
     italic |-> "None", underline |-> "None", color |-> "None",
     strike |-> "noStrike"]

RunInit ==
    /\ run1 \in PptxRuns
    /\ run2 \in PptxRuns
    /\ runReason = "unset"
    /\ cellReason = "unset"

RunIdle ==
    /\ run1 = PlainRun(<<"a">>)
    /\ run2 = PlainRun(<<"a">>)
    /\ runReason = "idle"
    /\ cellReason = "idle"

\* One iteration of the run loop of compare_text_shape.
RunCompare ==
    /\ runReason = "unset"
    /\ runReason' = compare_text_run(run1, run2)
    /\ UNCHANGED <<run1, run2, cellReason>>

(***************************************************************************)
(* Presentation engine: document model                                     *)
(*                                                                         *)
(* A paragraph is [algn, pPr, lvl, buChar, runs]: pPr tells whether the    *)
(* a:pPr element exists, lvl is its lvl attribute ("None" when absent),    *)
(* buChar the bullet character ("No Bullet" when there is none).           *)
(* A shape is [type, left, top, width, height, paras, hash, line, cells,   *)
(* children]: paras is the text frame (text-bearing types), hash the MD5   *)
(* of the image blob ("ERR" when reading the blob raises), line the        *)
(* picture border, cells the table grid (rows of cells, a cell is a        *)
(* record [paras]) and children the shapes of a group.                     *)
(***************************************************************************)

TEXT_SHAPE_TYPES == {"TEXT_BOX", "AUTO_SHAPE", "PLACEHOLDER"}

\* hasattr(shape, 'text') and hasattr(shape, 'text_frame'): the text-bearing
\* shape classes have both, pictures, graphic frames and groups have neither.
HasText(shape) == shape.type \in TEXT_SHAPE_TYPES

\* paragraph.text: the run texts concatenated.
RECURSIVE ParaText(_)
ParaText(runs) ==
    IF runs = <<>> THEN <<>> ELSE Head(runs).text \o ParaText(Tail(runs))

\* text_frame.text: the paragraph texts joined by line feeds.
FrameText(paras) ==
    Join([i \in 1..Len(paras) |-> ParaText(paras[i].runs)], <<"LF">>)

\* paragraph.level: the lvl attribute, 0 when absent.
ParaLevel(para) == IF para.pPr /\ para.lvl # "None" THEN para.lvl ELSE "0"

normalize_alignment(alignment) == IF alignment = "None" THEN "LEFT" ELSE alignment

\* The cells of a table in row-major order.
RECURSIVE CellsRowMajor(_)
CellsRowMajor(rows) ==
    IF rows = <<>> THEN <<>> ELSE Head(rows) \o CellsRowMajor(Tail(rows))

\* The non-empty members of a sequence of texts.
RECURSIVE NonEmpty(_)
NonEmpty(texts) ==
    IF texts = <<>> THEN <<>>
    ELSE IF Head(texts) # <<>> THEN <<Head(texts)>> \o NonEmpty(Tail(texts))
    ELSE NonEmpty(Tail(texts))

\* get_shape_signature: (shape_type, text_content, image_hash).
get_shape_signature(shape) ==
    LET cells == CellsRowMajor(shape.cells)
        table_text ==
            NonEmpty([i \in 1..Len(cells) |->
                          normalize_cell_text(FrameText(cells[i].paras))])
    IN  [type |-> shape.type,
         text |-> IF shape.type = "TABLE" THEN Join(table_text, <<"|">>)
                  ELSE IF HasText(shape) THEN Strip(FrameText(shape.paras))
                  ELSE <<>>,
         hash |-> IF shape.type = "PICTURE" /\ shape.hash # "ERR"
                  THEN shape.hash ELSE ""]

(***************************************************************************)
(* Fuzzy matcher                                                           *)
(***************************************************************************)

\* Mutant: only a candidate of the same type passes the gate.
TypeScore_exact(t, c) ==
    IF t.type = c.type THEN 10 ELSE -1

\* Mutant: a candidate of any other type counts as a partial type match.
TypeScore_any_type(t, c) ==
    IF t.type = c.type THEN 10 ELSE 5

\* Mutant: a candidate of another kind is scored, not skipped.
TypeScore_no_gate(t, c) ==
    IF t.type = c.type THEN 10
    ELSE IF t.type \in TEXT_SHAPE_TYPES /\ c.type \in TEXT_SHAPE_TYPES THEN 5
    ELSE 0

\* The type gate: 10 for the same type, 5 for two text-bearing types, -1 for
\* a candidate the `continue` of the else branch skips.
TypeScore(t, c) ==
    IF t.type = c.type THEN 10
    ELSE IF t.type \in TEXT_SHAPE_TYPES /\ c.type \in TEXT_SHAPE_TYPES THEN 5
    ELSE -1

TextScore(t, c) ==
    IF t.text # <<>> /\ c.text # <<>>
    THEN IF t.text = c.text THEN 100
         ELSE IF Contains(c.text, t.text) \/ Contains(t.text, c.text) THEN 50
         ELSE 0
    ELSE IF t.text = <<>> /\ c.text = <<>> THEN 20
    ELSE 0

HashScore(t, c) ==
    IF t.hash # "" /\ c.hash # "" /\ t.hash = c.hash THEN 100 ELSE 0

\* Mutant: the position does not count.
PosScore_none(pos_diff) == 0

PosScore(pos_diff) ==
    IF pos_diff < 100000 THEN 10
    ELSE IF pos_diff < 500000 THEN 5
    ELSE 0

\* The score from the two signatures and the distance, -1 when skipped.
SignatureScore(t, c, pos_diff) ==
    IF TypeScore(t, c) = -1 THEN -1
    ELSE TypeScore(t, c) + TextScore(t, c) + HashScore(t, c) + PosScore(pos_diff)

\* The score of one unused candidate.
MatchScore(target_shape, candidate) ==
    SignatureScore(get_shape_signature(target_shape),
                   get_shape_signature(candidate),
                   Abs(target_shape.left - candidate.left)
                   + Abs(target_shape.top - candidate.top))

\* if score > best_score: best_score, best_match_idx = score, idx
Better(best, idx, score) ==
    IF score # -1 /\ score > best.score THEN [idx |-> idx, score |-> score]
    ELSE best

\* The loop of find_matching_shape from candidate idx on; best is
\* (best_match_idx, best_score).
RECURSIVE FindLoop(_, _, _, _, _)
FindLoop(target_shape, candidate_shapes, used_indices, idx, best) ==
    IF idx > Len(candidate_shapes) THEN best.idx
    ELSE FindLoop(target_shape, candidate_shapes, used_indices, idx + 1,
                  IF idx \in used_indices THEN best
                  ELSE Better(best, idx, MatchScore(target_shape, candidate_shapes[idx])))

\* Mutant: used candidates are not skipped.
find_matching_shape_ignore_used(target_shape, candidate_shapes, used_indices) ==
    FindLoop(target_shape, candidate_shapes, {}, 1, [idx |-> -1, score |-> -1])

\* Mutant: the last of several best candidates wins (>= instead of >).
BetterOrEqual(best, idx, score) ==
    IF score # -1 /\ score >= best.score THEN [idx |-> idx, score |-> score]
    ELSE best

RECURSIVE FindLoopLast(_, _, _, _, _)
FindLoopLast(target_shape, candidate_shapes, used_indices, idx, best) ==
    IF idx > Len(candidate_shapes) THEN best.idx
    ELSE FindLoopLast(target_shape, candidate_shapes, used_indices, idx + 1,
                      IF idx \in used_indices THEN best
                      ELSE BetterOrEqual(best, idx,
                                         MatchScore(target_shape, candidate_shapes[idx])))

find_matching_shape_last_best(target_shape, candidate_shapes, used_indices) ==
    FindLoopLast(target_shape, candidate_shapes, used_indices, 1,
                 [idx |-> -1, score |-> -1])

\* find_matching_shape: the index of the matched candidate, -1 for (None, -1).
find_matching_shape(target_shape, candidate_shapes, used_indices) ==
    FindLoop(target_shape, candidate_shapes, used_indices, 1,
             [idx |-> -1, score |-> -1])

(***************************************************************************)
(* Shape pair checks                                                       *)
(*                                                                         *)
(* A check returns [result, log]: result is 0 or 1 as in the source and    *)
(* log the messages handed to log_mismatch, in order.                      *)
(***************************************************************************)

Ret(result, log) == [result |-> result, log |-> log]

\* A check that logs msg and returns 0, or passes when msg is "ok".
Verdict(msg) == IF msg = "ok" THEN Ret(1, <<>>) ELSE Ret(0, <<msg>>)

\* Two checks in sequence: the second runs when the first did not return 0.
Chain(first, second) ==
    IF first.result = 0 THEN first
    ELSE Ret(second.result, first.log \o second.log)

\* Two checks in sequence, by message.
Then(first, second) == IF first # "ok" THEN first ELSE second

\* The first entry of a sequence of check results that is not "ok".
FirstNotOk(results) ==
    LET bad == {i \in 1..Len(results) : results[i] # "ok"} IN
    IF bad = {} THEN "ok"
    ELSE results[CHOOSE i \in bad : \A j \in bad : i <= j]

\* color.type of a line or font colour.
ColorType(color) ==
    IF color = "None" THEN "None"
    ELSE IF color = "theme" THEN "SCHEME"
    ELSE "RGB"

\* The border checks of compare_picture_shape.
PictureBorder(line1, line2) ==
    IF line1.dash_style # line2.dash_style THEN "Border style mismatch"
    ELSE IF ~is_approximately_equal(line1.width, line2.width, BorderTolerance)
         THEN "Border width mismatch"
    ELSE IF HasRgb(line1.color) /\ HasRgb(line2.color)
         THEN IF line1.color # line2.color THEN "Border color mismatch" ELSE "ok"
    ELSE IF ColorType(line1.color) # ColorType(line2.color)
         THEN "Border color type mismatch"
    ELSE "ok"

\* Mutant: a blob that cannot be read ends the comparison.
PictureHash_abort(hash1, hash2) ==
    IF hash1 = "ERR" \/ hash2 = "ERR"
    THEN Ret(0, <<"PICTURE: Image hash comparison failed">>)
    ELSE IF hash1 # hash2 THEN Ret(0, <<"PICTURE: Image content mismatch">>)
    ELSE Ret(1, <<>>)

\* Mutant: two readable images are never told apart.
PictureHash_same(hash1, hash2) ==
    IF hash1 = "ERR" \/ hash2 = "ERR"
    THEN Ret(1, <<"PICTURE: Image hash comparison failed">>)
    ELSE Ret(1, <<>>)

\* The hash check of compare_picture_shape: a blob that cannot be read logs
\* and lets the comparison go on.
PictureHash(hash1, hash2) ==
    IF hash1 = "ERR" \/ hash2 = "ERR"
    THEN Ret(1, <<"PICTURE: Image hash comparison failed">>)
    ELSE IF hash1 # hash2 THEN Ret(0, <<"PICTURE: Image content mismatch">>)
    ELSE Ret(1, <<>>)

compare_picture_shape(shape1, shape2) ==
    Chain(Verdict(IF \/ ~is_approximately_equal(shape1.left, shape2.left, DefaultTolerance)
                     \/ ~is_approximately_equal(shape1.top, shape2.top, DefaultTolerance)
                  THEN "PICTURE: Position mismatch" ELSE "ok"),
    Chain(Verdict(IF \/ ~is_approximately_equal(shape1.width, shape2.width, DefaultTolerance)
                     \/ ~is_approximately_equal(shape1.height, shape2.height, DefaultTolerance)
                  THEN "PICTURE: Dimension mismatch" ELSE "ok"),
    Chain(PictureHash(shape1.hash, shape2.hash),
          Verdict(PictureBorder(shape1.line, shape2.line)))))

\* POSITION_TOLERANCE_EMU of compare_table_shape.
POSITION_TOLERANCE_EMU == 2000

\* Mutant: an absent underline is identified with every value.
table_underline_mismatch_lenient(u1, u2) ==
    u1 # u2 /\ u1 # "None" /\ u2 # "None"

\* The underline check of compare_table_shape.
table_underline_mismatch(u1, u2) ==
    IF u1 # u2
    THEN IF ~(u1 = "None" /\ u2 = "None")
         THEN ((u1 = "None") # (u2 = "None")) \/ ((u1 = "True") # (u2 = "True"))
         ELSE FALSE
    ELSE FALSE

\* The checks of one zipped run pair of a table cell.
compare_table_run(r1, r2) ==
    IF HasRgb(r1.color) /\ HasRgb(r2.color) /\ r1.color # r2.color
    THEN "Font color mismatch"
    ELSE IF ~fonts_effectively_equal(r1.bold, r2.bold) THEN "Font bold mismatch"
    ELSE IF ~fonts_effectively_equal(r1.italic, r2.italic) THEN "Font italic mismatch"
    ELSE IF table_underline_mismatch(r1.underline, r2.underline)
         THEN "Font underline mismatch"
    ELSE "ok"

\* One iteration of the run loop of compare_table_shape.
RunCompareCell ==
    /\ cellReason = "unset"
    /\ cellReason' = compare_table_run(run1, run2)
    /\ UNCHANGED <<run1, run2, runReason>>

\* The checks of one zipped paragraph pair of a table cell.
compare_table_para(para1, para2) ==
    IF Len(para1.runs) # Len(para2.runs) THEN "Run count mismatch"
    ELSE FirstNotOk([j \in 1..Len(para1.runs) |->
                        compare_table_run(para1.runs[j], para2.runs[j])])

\* The checks of one cell pair.
compare_table_cell(cell1, cell2) ==
    IF normalize_cell_text(FrameText(cell1.paras))
          # normalize_cell_text(FrameText(cell2.paras))
    THEN "Text mismatch"
    ELSE IF Len(cell1.paras) # Len(cell2.paras) THEN "Paragraph count mismatch"
    ELSE FirstNotOk([i \in 1..Len(cell1.paras) |->
                        compare_table_para(cell1.paras[i], cell2.paras[i])])

TableCols(rows) == IF rows = <<>> THEN 0 ELSE Len(rows[1])

\* The cell loop over two grids of the same size, cells in row-major order.
compare_table_cells(cells1, cells2) ==
    FirstNotOk([i \in 1..Len(cells1) |-> compare_table_cell(cells1[i], cells2[i])])

\* Mutant: the table position goes through the hybrid tolerance.
compare_table_shape_hybrid(shape1, shape2) ==
    IF \/ ~is_approximately_equal(shape1.left, shape2.left, DefaultTolerance)
       \/ ~is_approximately_equal(shape1.top, shape2.top, DefaultTolerance)
    THEN Ret(0, <<"TABLE: Position mismatch">>)
    ELSE IF \/ ~is_approximately_equal(shape1.width, shape2.width, DefaultTolerance)
            \/ ~is_approximately_equal(shape1.height, shape2.height, DefaultTolerance)
    THEN Ret(0, <<"TABLE: Dimension mismatch">>)
    ELSE IF \/ Len(shape1.cells) # Len(shape2.cells)
            \/ TableCols(shape1.cells) # TableCols(shape2.cells)
    THEN Ret(0, <<"TABLE: Table size mismatch">>)
    ELSE Verdict(compare_table_cells(CellsRowMajor(shape1.cells),
                                     CellsRowMajor(shape2.cells)))

compare_table_shape(shape1, shape2) ==
    IF \/ Abs(shape1.left - shape2.left) > POSITION_TOLERANCE_EMU
       \/ Abs(shape1.top - shape2.top) > POSITION_TOLERANCE_EMU
    THEN Ret(0, <<"TABLE: Position mismatch">>)
    ELSE IF \/ ~is_approximately_equal(shape1.width, shape2.width, DefaultTolerance)
            \/ ~is_approximately_equal(shape1.height, shape2.height, DefaultTolerance)
    THEN Ret(0, <<"TABLE: Dimension mismatch">>)
    ELSE IF \/ Len(shape1.cells) # Len(shape2.cells)
            \/ TableCols(shape1.cells) # TableCols(shape2.cells)
    THEN Ret(0, <<"TABLE: Table size mismatch">>)
    ELSE Verdict(compare_table_cells(CellsRowMajor(shape1.cells),
                                     CellsRowMajor(shape2.cells)))

compare_shape_geometry(shape1, shape2) ==
    /\ is_approximately_equal(shape1.left, shape2.left, DefaultTolerance)
    /\ is_approximately_equal(shape1.top, shape2.top, DefaultTolerance)
    /\ is_approximately_equal(shape1.width, shape2.width, DefaultTolerance)
    /\ is_approximately_equal(shape1.height, shape2.height, DefaultTolerance)

\* The paragraphs of a list of table cells, in order.
RECURSIVE CellParas(_)
CellParas(cells) ==
    IF cells = <<>> THEN <<>> ELSE Head(cells).paras \o CellParas(Tail(cells))

\* The paragraphs (a:p) of a list of shapes in document order: text frames,
\* table cells in row-major order, group children in depth.
RECURSIVE AllParas(_)
AllParas(shapes) ==
    IF shapes = <<>> THEN <<>>
    ELSE LET sh == Head(shapes) IN
         sh.paras \o CellParas(CellsRowMajor(sh.cells)) \o AllParas(sh.children)
         \o AllParas(Tail(shapes))

\* The loop of extract_bullets over the paragraphs: (lvl, char, text) of
\* every paragraph with visible text (the colour is read but never compared).
RECURSIVE BulletsOf(_)
BulletsOf(paras) ==
    IF paras = <<>> THEN <<>>
    ELSE LET para == Head(paras)
             entry == [lvl |-> IF para.pPr THEN para.lvl ELSE "No Level",
                       char |-> IF para.pPr THEN para.buChar ELSE "No Bullet",
                       text |-> ParaText(para.runs)]
         IN  IF Strip(entry.text) # <<>>
             THEN <<entry>> \o BulletsOf(Tail(paras))
             ELSE BulletsOf(Tail(paras))

\* extract_bullets over the XML of a slide part.
extract_bullets(shapes) == BulletsOf(AllParas(shapes))

compare_bullets(bullets1, bullets2) ==
    IF Len(bullets1) # Len(bullets2) THEN FALSE
    ELSE \A i \in 1..Len(bullets1) :
            /\ bullets1[i].text = bullets2[i].text
            /\ bullets1[i].char = bullets2[i].char
            /\ (IF bullets1[i].lvl = "None" THEN "0" ELSE bullets1[i].lvl)
                  = (IF bullets2[i].lvl = "None" THEN "0" ELSE bullets2[i].lvl)

\* One run pair of compare_text_shape: the font checks, then the bullets of
\* the two slide parts (part = [blob_ok, shapes]; a part whose blob cannot be
\* decoded or parsed makes the bullet check raise, and it is skipped).
compare_text_run_and_bullets(r1, r2, part1, part2) ==
    Then(compare_text_run(r1, r2),
         IF ~part1.blob_ok \/ ~part2.blob_ok THEN "ok"
         ELSE IF ~compare_bullets(extract_bullets(part1.shapes),
                                  extract_bullets(part2.shapes))
              THEN "Bullets mismatch"
         ELSE "ok")

\* One paragraph pair of compare_text_shape.
compare_text_para(para1, para2, part1, part2) ==
    IF normalize_alignment(para1.algn) # normalize_alignment(para2.algn)
    THEN "Alignment mismatch"
    ELSE IF ParaText(para1.runs) # ParaText(para2.runs) THEN "Text mismatch"
    ELSE IF ParaLevel(para1) # ParaLevel(para2) THEN "Indent level mismatch"
    ELSE IF Len(para1.runs) # Len(para2.runs) THEN "Run count mismatch"
    ELSE FirstNotOk([j \in 1..Len(para1.runs) |->
                        compare_text_run_and_bullets(para1.runs[j], para2.runs[j],
                                                     part1, part2)])

compare_text_shape(shape1, shape2, part1, part2) ==
    IF Strip(FrameText(shape1.paras)) # Strip(FrameText(shape2.paras))
    THEN Ret(0, <<"Text content mismatch">>)
    ELSE IF Len(shape1.paras) # Len(shape2.paras)
    THEN Ret(0, <<"Paragraph count mismatch">>)
    ELSE Verdict(FirstNotOk([i \in 1..Len(shape1.paras) |->
                                compare_text_para(shape1.paras[i], shape2.paras[i],
                                                  part1, part2)]))

\* The checks of one matched pair in compare_pptx_files (shape1 is the test
\* shape, shape2 the golden shape the matcher returned).
compare_matched_pair(shape1, shape2, part1, part2) ==
    Chain(IF shape1.type = "PICTURE" THEN compare_picture_shape(shape1, shape2)
          ELSE Ret(1, <<>>),
    Chain(IF shape1.type = "TABLE" THEN compare_table_shape(shape1, shape2)
          ELSE Ret(1, <<>>),
    Chain(Verdict(IF compare_shape_geometry(shape1, shape2) THEN "ok"
                  ELSE "Geometry mismatch"),
          IF HasText(shape1) /\ HasText(shape2)
          THEN compare_text_shape(shape1, shape2, part1, part2)
          ELSE Ret(1, <<>>))))

(***************************************************************************)
(* Slide comparison                                                        *)
(***************************************************************************)

\* get_slide_background_color: the slide's own solid fill (type 1), else for
\* an inherited background (type 5) the master's solid fill, else None.
get_slide_background_color(bg) ==
    IF bg.type = "1" THEN bg.rgb
    ELSE IF bg.type = "5" /\ bg.master_type = "1" THEN bg.master_rgb
    ELSE "None"

\* get_slide_notes: the text of the notes text frame, "" without a notes slide.
get_slide_notes(notes) == IF notes.present THEN notes.text ELSE <<>>

\* The background and notes checks of one slide pair.
compare_slide_header(hdrA, hdrB) ==
    IF get_slide_background_color(hdrA.bg) # get_slide_background_color(hdrB.bg)
    THEN "Background color mismatch"
    ELSE IF Strip(get_slide_notes(hdrA.notes)) # Strip(get_slide_notes(hdrB.notes))
    THEN "Notes mismatch"
    ELSE "ok"

\* get_all_text_shapes: the shapes with a text frame, groups searched in depth.
RECURSIVE get_all_text_shapes(_)
get_all_text_shapes(shapes) ==
    IF shapes = <<>> THEN <<>>
    ELSE LET shape == Head(shapes) IN
         (IF HasText(shape) THEN <<shape>> ELSE <<>>)
         \o (IF shape.type = "GROUP" THEN get_all_text_shapes(shape.children) ELSE <<>>)
         \o get_all_text_shapes(Tail(shapes))

\* No golden shape for a test shape: the match loop returns 0.
NoMatch(acc) ==
    [result |-> 0, log |-> acc.log \o <<"No matching shape found">>,
     pairing |-> acc.pairing \o <<-1>>, used |-> acc.used]

\* Mutant: the matched golden index is not added to used_golden_indices.
MatchPair_no_add(acc, golden_idx, pair) ==
    [result |-> pair.result, log |-> acc.log \o pair.log,
     pairing |-> acc.pairing \o <<golden_idx>>,
     used |-> acc.used]

\* Mutant: the index of the test shape is added to used_golden_indices.
MatchPair_test_index(acc, golden_idx, pair) ==
    [result |-> pair.result, log |-> acc.log \o pair.log,
     pairing |-> acc.pairing \o <<golden_idx>>,
     used |-> acc.used \cup {Len(acc.pairing) + 1}]

\* used_golden_indices.add(golden_idx), then the checks of the pair.
MatchPair(acc, golden_idx, pair) ==
    [result |-> pair.result, log |-> acc.log \o pair.log,
     pairing |-> acc.pairing \o <<golden_idx>>,
     used |-> acc.used \cup {golden_idx}]

\* One iteration of the match loop, given what find_matching_shape returned.
MatchStep(test_shape, golden_shapes, part1, part2, acc, golden_idx) ==
    IF golden_idx = -1 THEN NoMatch(acc)
    ELSE MatchPair(acc, golden_idx,
                   compare_matched_pair(test_shape, golden_shapes[golden_idx],
                                        part1, part2))

\* The loop over the test shapes from test_idx on. acc carries the result so
\* far (0 once a check returned 0), the log, the golden index
\* find_matching_shape returned for every test shape reached (pairing) and
\* used_golden_indices.
RECURSIVE MatchLoop(_, _, _, _, _, _)
MatchLoop(test_shapes, golden_shapes, part1, part2, test_idx, acc) ==
    IF acc.result = 0 \/ test_idx > Len(test_shapes) THEN acc
    ELSE MatchLoop(test_shapes, golden_shapes, part1, part2, test_idx + 1,
                   MatchStep(test_shapes[test_idx], golden_shapes, part1, part2, acc,
                             find_matching_shape(test_shapes[test_idx], golden_shapes,
                                                 acc.used)))

\* The alignment check of the text pass over two paragraph lists.
TextPassAlignment(paras1, paras2) ==
    \A i \in 1..Len(paras1) :
        normalize_alignment(paras1[i].algn) = normalize_alignment(paras2[i].algn)

\* The checks of one matched pair of the text pass.
TextPassPair(tshape1, tshape2) ==
    IF Strip(FrameText(tshape1.paras)) # Strip(FrameText(tshape2.paras))
    THEN "TextShape: Text mismatch"
    ELSE IF Len(tshape1.paras) # Len(tshape2.paras)
    THEN "TextShape: Paragraph count mismatch"
    ELSE IF ~TextPassAlignment(tshape1.paras, tshape2.paras)
    THEN "TextShape: Alignment mismatch"
    ELSE "ok"

\* The loop over the text shapes (groups included) from test_idx on.
RECURSIVE TextPassLoop(_, _, _, _)
RECURSIVE TextPassStep(_, _, _, _, _)
TextPassStep(text_shapes1, text_shapes2, test_idx, used, golden_text_idx) ==
    IF golden_text_idx = -1 THEN "No matching text shape"
    ELSE Then(TextPassPair(text_shapes1[test_idx], text_shapes2[golden_text_idx]),
              TextPassLoop(text_shapes1, text_shapes2, test_idx + 1,
                           used \cup {golden_text_idx}))

TextPassLoop(text_shapes1, text_shapes2, test_idx, used) ==
    IF test_idx > Len(text_shapes1) THEN "ok"
    ELSE TextPassStep(text_shapes1, text_shapes2, test_idx, used,
                      find_matching_shape(text_shapes1[test_idx], text_shapes2, used))

\* The match loop returned 0 further on: msg is logged.
Failed(m, msg) == [m EXCEPT !.result = 0, !.log = @ \o <<msg>>]

FailedUnlessOk(m, msg) == IF msg = "ok" THEN m ELSE Failed(m, msg)

\* After the match loop: the unmatched-golden check and the text pass.
AfterMatchLoop(m, golden_shapes, text_shapes1, text_shapes2) ==
    IF m.result = 0 THEN m
    ELSE IF Cardinality(m.used) # Len(golden_shapes)
    THEN Failed(m, "golden shape(s) not matched")
    ELSE IF Len(text_shapes1) # Len(text_shapes2)
    THEN Failed(m, "Text shape count mismatch")
    ELSE FailedUnlessOk(m, TextPassLoop(text_shapes1, text_shapes2, 1, {}))

\* The shape checks of one slide pair: shape count, the match loop with the
\* pair checks, the unmatched-golden check and the text pass. blob1_ok and
\* blob2_ok tell whether the XML of the two slide parts can be decoded and
\* parsed by the bullet extraction.
compare_slide_parts(test_shapes, golden_shapes, blob1_ok, blob2_ok) ==
    IF Len(test_shapes) # Len(golden_shapes)
    THEN [result |-> 0, log |-> <<"Shape count mismatch">>,
          pairing |-> <<>>, used |-> {}]
    ELSE AfterMatchLoop(
             MatchLoop(test_shapes, golden_shapes,
                       [blob_ok |-> blob1_ok, shapes |-> test_shapes],
                       [blob_ok |-> blob2_ok, shapes |-> golden_shapes],
                       1, [result |-> 1, log |-> <<>>, pairing |-> <<>>, used |-> {}]),
             golden_shapes,
             get_all_text_shapes(test_shapes),
             get_all_text_shapes(golden_shapes))

\* The shape checks of a slide pair whose parts can both be parsed.
compare_slide_shapes(test_shapes, golden_shapes) ==
    compare_slide_parts(test_shapes, golden_shapes, TRUE, TRUE)

(***************************************************************************)
(* compare_pptx_files as a machine                                         *)
(*                                                                         *)
(* The two files are read slide by slide; the header values of a slide     *)
(* pair are not kept once they are compared. fwd is the call with file1 as *)
(* the test file and file2 as the golden file, rev the call with the       *)
(* arguments exchanged; a call that has returned keeps its result while    *)
(* the other goes on over the remaining slides.                            *)
(***************************************************************************)

MaxSlides == 2
MaxShapes == 2

Para(text, algn) ==
    [algn |-> algn, pPr |-> FALSE, lvl |-> "None", buChar |-> "No Bullet",
     runs |-> <<PlainRun(text)>>]

NoLine == [dash_style |-> "None", width |-> 0, color |-> "None"]

TextShape(type, text, width) ==
    [type |-> type, left |-> 100000, top |-> 100000, width |-> width,
     height |-> 50000, paras |-> <<Para(text, "None")>>, hash |-> "",
     line |-> NoLine, cells |-> <<>>, children |-> <<>>]

PictureShape(hash) ==
    [type |-> "PICTURE", left |-> 100000, top |-> 100000, width |-> 200000,
     height |-> 50000, paras |-> <<>>, hash |-> hash,
     line |-> NoLine, cells |-> <<>>, children |-> <<>>]

TableShape(text) ==
    [type |-> "TABLE", left |-> 100000, top |-> 100000, width |-> 200000,
     height |-> 50000, paras |-> <<>>, hash |-> "",
     line |-> NoLine, cells |-> <<<<[paras |-> <<Para(text, "None")>>]>>>>,
     children |-> <<>>]

GroupShape(children) ==
    [type |-> "GROUP", left |-> 100000, top |-> 100000, width |-> 200000,
     height |-> 50000, paras |-> <<>>, hash |-> "",
     line |-> NoLine, cells |-> <<>>, children |-> children]

\* The shapes the slides are built from.
ShapeUniverse ==
    { TextShape("TEXT_BOX", <<"a">>, 200000),
      TextShape("TEXT_BOX", <<"a">>, 300000),
      TextShape("AUTO_SHAPE", <<"a">>, 200000),
      PictureShape("h1"),
      PictureShape("ERR"),
      TableShape(<<"b">>),
      GroupShape(<<TextShape("TEXT_BOX", <<"a">>, 200000)>>) }

ShapeLists == SeqsUpTo(ShapeUniverse, MaxShapes)

Backgrounds ==
    { [type |-> "1", rgb |-> "FF0000", master_type |-> "1", master_rgb |-> "FFFFFF"],
      [type |-> "5", rgb |-> "None", master_type |-> "1", master_rgb |-> "FF0000"],
      [type |-> "5", rgb |-> "None", master_type |-> "2", master_rgb |-> "None"] }

NotesTexts ==
    { [present |-> FALSE, text |-> <<>>],
      [present |-> TRUE, text |-> <<"n">>],
      [present |-> TRUE, text |-> <<"n", " ">>] }

Headers == [bg : Backgrounds, notes : NotesTexts]

Running == [result |-> -1, log |-> <<>>]

\* A call that is still running takes the outcome of a check: it returns 0
\* with the message logged, or goes on.
AfterCheck(call, outcome) ==
    IF call.result # -1 THEN call
    ELSE IF outcome = "ok" THEN call
    ELSE [result |-> 0, log |-> call.log \o <<outcome>>]

\* A call that is still running takes the outcome of the shape checks of a
\* slide pair, and returns 1 after the last slide.
AfterShapes(call, outcome, last) ==
    IF call.result # -1 THEN call
    ELSE IF outcome.result = 0 THEN [result |-> 0, log |-> call.log \o outcome.log]
    ELSE [result |-> IF last THEN 1 ELSE -1, log |-> call.log \o outcome.log]

\* The bijections on 1..n.
Perms(n) == {f \in [1..n -> 1..n] : \A i, j \in 1..n : i # j => f[i] # f[j]}

\* t is s with its elements in another order.
IsPermutation(s, t) ==
    /\ Len(s) = Len(t)
    /\ \E f \in Perms(Len(s)) : \A i \in 1..Len(s) : t[i] = s[f[i]]

\* The shape lists a test slide is drawn from, given the golden slide: the
\* golden list itself, its reorderings, and the lists one shape away from it
\* (one shape replaced, removed or appended).
TestVariants(golden) ==
    LET n == Len(golden) IN
    {[i \in 1..n |-> golden[f[i]]] : f \in Perms(n)}
    \cup {[golden EXCEPT ![i] = u] : i \in 1..n, u \in ShapeUniverse}
    \cup {[j \in 1..(n - 1) |-> IF j < i THEN golden[j] ELSE golden[j + 1]] : i \in 1..n}
    \cup (IF n < MaxShapes THEN {Append(golden, u) : u \in ShapeUniverse} ELSE {})

HasUnreadablePicture(shapes) ==
    \E i \in 1..Len(shapes) : shapes[i].type = "PICTURE" /\ shapes[i].hash = "ERR"

CmpInit ==
    /\ nSlides1 \in 0..MaxSlides
    /\ nSlides2 \in 0..MaxSlides
    /\ slideIdx = 0
    /\ cmpPc = "start"
    /\ shapes1 = <<>> /\ shapes2 = <<>>
    /\ fwd = Running /\ rev = Running
    /\ pairing = <<>>
    /\ sameDoc = (nSlides1 = nSlides2)
    /\ permDoc = (nSlides1 = nSlides2)
    /\ unreadable = FALSE

CmpIdle ==
    /\ nSlides1 = 0 /\ nSlides2 = 0
    /\ slideIdx = 0
    /\ cmpPc = "idle"
    /\ shapes1 = <<>> /\ shapes2 = <<>>
    /\ fwd = Running /\ rev = Running
    /\ pairing = <<>>
    /\ sameDoc = FALSE /\ permDoc = FALSE /\ unreadable = FALSE

\* mismatch_log = [], the two files are opened, the slide counts compared.
CmpStart ==
    /\ cmpPc = "start"
    /\ IF nSlides1 # nSlides2
       THEN /\ fwd' = AfterCheck(fwd, "Slide count mismatch")
            /\ rev' = AfterCheck(rev, "Slide count mismatch")
            /\ cmpPc' = "done"
            /\ slideIdx' = slideIdx
       ELSE IF nSlides1 = 0
       THEN /\ fwd' = [fwd EXCEPT !.result = 1]
            /\ rev' = [rev EXCEPT !.result = 1]
            /\ cmpPc' = "done"
            /\ slideIdx' = slideIdx
       ELSE /\ cmpPc' = "header"
            /\ slideIdx' = 1
            /\ UNCHANGED <<fwd, rev>>
    /\ UNCHANGED <<nSlides1, nSlides2, shapes1, shapes2, pairing,
                   sameDoc, permDoc, unreadable>>

\* The background and notes checks of the next slide pair.
CmpHeader ==
    /\ cmpPc = "header"
    /\ \E h1 \in Headers, h2 \in Headers :
          /\ fwd' = AfterCheck(fwd, compare_slide_header(h1, h2))
          /\ rev' = AfterCheck(rev, compare_slide_header(h2, h1))
          /\ sameDoc' = (sameDoc /\ h1 = h2)
          /\ permDoc' = (permDoc /\ h1 = h2)
    /\ cmpPc' = IF fwd'.result # -1 /\ rev'.result # -1 THEN "done" ELSE "shapes"
    /\ UNCHANGED <<nSlides1, nSlides2, slideIdx, shapes1, shapes2, pairing, unreadable>>

\* The shape checks of a slide pair with shape lists s1 and s2, out12 and
\* out21 being their outcome in the two directions.
CmpShapesOn(s1, s2, out12, out21) ==
    /\ shapes1' = s1
    /\ shapes2' = s2
    /\ fwd' = AfterShapes(fwd, out12, slideIdx = nSlides1)
    /\ rev' = AfterShapes(rev, out21, slideIdx = nSlides1)
    /\ pairing' = out12.pairing
    /\ sameDoc' = (sameDoc /\ s1 = s2)
    /\ permDoc' = (permDoc /\ IsPermutation(s2, s1))
    /\ unreadable' = (unreadable \/ HasUnreadablePicture(s1)
                                 \/ HasUnreadablePicture(s2))
    /\ cmpPc' = IF slideIdx = nSlides1 \/ (fwd'.result # -1 /\ rev'.result # -1)
                THEN "done" ELSE "next"

\* The shape checks of the slide pair, then the next slide or the return.
CmpShapes ==
    /\ cmpPc = "shapes"
    /\ \E s2 \in ShapeLists : \E s1 \in TestVariants(s2) :
          CmpShapesOn(s1, s2, compare_slide_shapes(s1, s2),
                              compare_slide_shapes(s2, s1))
    /\ UNCHANGED <<nSlides1, nSlides2, slideIdx>>

\* The loop goes to the next slide pair: slide1, slide2 and the shape lists
\* of the pair just compared are dropped.
CmpNextSlide ==
    /\ cmpPc = "next"
    /\ cmpPc' = "header"
    /\ slideIdx' = slideIdx + 1
    /\ shapes1' = <<>>
    /\ shapes2' = <<>>
    /\ pairing' = <<>>
    /\ UNCHANGED <<nSlides1, nSlides2, fwd, rev, sameDoc, permDoc, unreadable>>

(***************************************************************************)
(* Word-document engine: run formatting (writer_test_evaluator.py)         *)
(*                                                                         *)
(* A run is [text, bold, italic, underline, font_size, font_name].  The    *)
(* extractor sets bold, italic and underline to Python booleans and only   *)
(* keeps runs whose text is not empty.  A font name is a sequence of       *)
(* tokens (a family name, the suffixes " (Body)", " (Headings)", ...,      *)
(* and " " for a blank); NoFont stands for None.                           *)
(***************************************************************************)

NoFont == <<"None">>

FontSuffixes == {" (Body)", " (Headings)", " (body)", " (headings)"}

\* font.replace(suffix, '') for the four suffixes.
RECURSIVE RemoveSuffixes(_)
RemoveSuffixes(font) ==
    IF font = <<>> THEN <<>>
    ELSE IF Head(font) \in FontSuffixes THEN RemoveSuffixes(Tail(font))
    ELSE <<Head(font)>> \o RemoveSuffixes(Tail(font))

normalize_font_name(font) ==
    IF font = NoFont \/ font = <<>> THEN NoFont
    ELSE LET f == Strip(RemoveSuffixes(font)) IN
         IF f = <<>> THEN NoFont ELSE f

normalize_formatting(run_fmt) ==
    [bold |-> (run_fmt.bold = TRUE),
     italic |-> (run_fmt.italic = TRUE),
     underline |-> (run_fmt.underline = TRUE),
     font_size |-> run_fmt.font_size,
     font_name |-> normalize_font_name(run_fmt.font_name)]

\* The loop of merge_consecutive_runs over runs_formatting[1:].
RECURSIVE MergeLoop(_, _, _)
MergeLoop(rest, current, merged) ==
    IF rest = <<>>
    THEN IF current.text # <<>> THEN Append(merged, current) ELSE merged
    ELSE LET run == Head(rest)
             current_fmt == normalize_formatting(current)
             run_fmt == normalize_formatting(run)
         IN  IF /\ current_fmt.bold = run_fmt.bold
                /\ current_fmt.italic = run_fmt.italic
                /\ current_fmt.underline = run_fmt.underline
                /\ current_fmt.font_size = run_fmt.font_size
                /\ current_fmt.font_name = run_fmt.font_name
             THEN MergeLoop(Tail(rest),
                            [current EXCEPT !.text = current.text \o run.text],
                            merged)
             ELSE MergeLoop(Tail(rest), run,
                            IF current.text # <<>> THEN Append(merged, current)
                            ELSE merged)

\* Mutant: nothing is merged.
merge_consecutive_runs_none(runs_formatting) == runs_formatting

\* Mutant: the last segment is not appended after the loop.
RECURSIVE MergeLoopNoFlush(_, _, _)
MergeLoopNoFlush(rest, current, merged) ==
    IF rest = <<>> THEN merged
    ELSE LET run == Head(rest) IN
         IF normalize_formatting(current) = normalize_formatting(run)
         THEN MergeLoopNoFlush(Tail(rest),
                               [current EXCEPT !.text = current.text \o run.text],
                               merged)
         ELSE MergeLoopNoFlush(Tail(rest), run,
                               IF current.text # <<>> THEN Append(merged, current)
                               ELSE merged)

merge_consecutive_runs_no_flush(runs_formatting) ==
    IF runs_formatting = <<>> THEN <<>>
    ELSE MergeLoopNoFlush(Tail(runs_formatting), Head(runs_formatting), <<>>)

merge_consecutive_runs(runs_formatting) ==
    IF runs_formatting = <<>> THEN <<>>
    ELSE MergeLoop(Tail(runs_formatting), Head(runs_formatting), <<>>)

\* ''.join(r['text'] for r in runs)
RECURSIVE FullText(_)
FullText(runs) ==
    IF runs = <<>> THEN <<>> ELSE Head(runs).text \o FullText(Tail(runs))

\* [r for r in runs if r.get('text', '').strip()]
RECURSIVE DropBlank(_)
DropBlank(runs) ==
    IF runs = <<>> THEN <<>>
    ELSE IF Strip(Head(runs).text) # <<>>
         THEN <<Head(runs)>> \o DropBlank(Tail(runs))
         ELSE DropBlank(Tail(runs))

\* all(normalize_formatting(r) == normalize_formatting(runs[0]) for r in runs)
Uniform(runs) ==
    \A i \in 1..Len(runs) :
        normalize_formatting(runs[i]) = normalize_formatting(runs[1])

\* The per-segment checks of compare_runs_semantic, in source order.
SegmentCode(actual_run, golden_run) ==
    LET actual_norm == normalize_formatting(actual_run)
        golden_norm == normalize_formatting(golden_run)
    IN  IF Strip(actual_run.text) # Strip(golden_run.text) THEN "FAIL_RUN_TEXT_CHANGED"
        ELSE IF actual_norm.bold # golden_norm.bold THEN "FAIL_RUN_BOLD_CHANGED"
        ELSE IF actual_norm.italic # golden_norm.italic THEN "FAIL_RUN_ITALIC_CHANGED"
        ELSE IF actual_norm.underline # golden_norm.underline
             THEN "FAIL_RUN_UNDERLINE_CHANGED"
        ELSE IF actual_norm.font_size # golden_norm.font_size
             THEN "FAIL_RUN_FONT_SIZE_CHANGED"
        ELSE IF actual_norm.font_name # golden_norm.font_name
             THEN "FAIL_RUN_FONT_NAME_CHANGED"
        ELSE "MATCH"

\* Mutant: the segment-count fallback accepts as soon as the texts agree.
compare_runs_semantic_text_only(actual, golden) ==
    LET actual_merged == DropBlank(merge_consecutive_runs(actual))
        golden_merged == DropBlank(merge_consecutive_runs(golden))
    IN  IF Len(actual_merged) # Len(golden_merged)
        THEN IF Strip(FullText(actual_merged)) = Strip(FullText(golden_merged))
             THEN "MATCH"
             ELSE "FAIL_PARAGRAPH_RUN_COUNT_CHANGED"
        ELSE LET bad == {j \in 1..Len(actual_merged) :
                            SegmentCode(actual_merged[j], golden_merged[j]) # "MATCH"}
             IN  IF bad = {} THEN "MATCH"
                 ELSE LET j == CHOOSE k \in bad : \A m \in bad : k <= m
                      IN  SegmentCode(actual_merged[j], golden_merged[j])

\* compare_runs_semantic: "MATCH" for (True, None, None), else the error code.
compare_runs_semantic(actual, golden) ==
    LET actual_merged == DropBlank(merge_consecutive_runs(actual))
        golden_merged == DropBlank(merge_consecutive_runs(golden))
    IN  IF Len(actual_merged) # Len(golden_merged)
        THEN IF /\ Strip(FullText(actual_merged)) = Strip(FullText(golden_merged))
                /\ Len(actual_merged) > 0
                /\ Len(golden_merged) > 0
                /\ Uniform(actual_merged)
                /\ Uniform(golden_merged)
                /\ normalize_formatting(actual_merged[1])
                      = normalize_formatting(golden_merged[1])
             THEN "MATCH"
             ELSE "FAIL_PARAGRAPH_RUN_COUNT_CHANGED"
        ELSE LET bad == {j \in 1..Len(actual_merged) :
                            SegmentCode(actual_merged[j], golden_merged[j]) # "MATCH"}
             IN  IF bad = {} THEN "MATCH"
                 ELSE LET j == CHOOSE k \in bad : \A m \in bad : k <= m
                      IN  SegmentCode(actual_merged[j], golden_merged[j])

\* The runs the extractor can produce (non-empty text, boolean flags).
DocxTexts == {<<"a">>, <<" ">>, <<"a", "b">>, <<"a", " ">>}
DocxFonts == {<<"Arial">>, <<"Arial", " (Body)">>}
DocxRuns ==
    [text : DocxTexts,
     bold : BOOLEAN,
     italic : {FALSE},
     underline : {FALSE},
     font_size : {"None"},
     font_name : DocxFonts]

\* Longest run list handed to merge_consecutive_runs alone.
MaxMergeRuns == 3
\* Longest golden run list of a compared paragraph.
MaxRuns == 2
\* Most edits that turn the golden paragraph into the candidate's.
MaxEdits == 1


MergeInit ==
    /\ mergeIn \in SeqsUpTo(DocxRuns, MaxMergeRuns)
    /\ mergeOut = <<>>
    /\ mergeAgain = <<>>
    /\ mergePc = "runs"

MergeIdle ==
    /\ mergeIn = <<>>
    /\ mergeOut = <<>>
    /\ mergeAgain = <<>>
    /\ mergePc = "idle"

\* merged = merge_consecutive_runs(runs_formatting)
MergeOnce ==
    /\ mergePc = "runs"
    /\ mergeOut' = merge_consecutive_runs(mergeIn)
    /\ mergePc' = "merged"
    /\ UNCHANGED <<mergeIn, mergeAgain>>

\* The merged list is merged a second time.
MergeTwice ==
    /\ mergePc = "merged"
    /\ mergeAgain' = merge_consecutive_runs(mergeOut)
    /\ mergePc' = "remerged"
    /\ UNCHANGED <<mergeIn, mergeOut>>

DocxInit ==
    /\ golden_runs \in SeqsUpTo(DocxRuns, MaxRuns)
    /\ actual_runs = golden_runs
    /\ editLog = <<>>
    /\ docxCode = "unset"

DocxIdle ==
    /\ golden_runs = <<>>
    /\ actual_runs = <<>>
    /\ editLog = <<>>
    /\ docxCode = "idle"

ReplaceRun(runs, i, new) ==
    SubSeq(runs, 1, i - 1) \o new \o SubSeq(runs, i + 1, Len(runs))

\* The candidate was saved with run i split into two adjacent runs whose
\* normalized formatting is that of run i.
EditSplit ==
    /\ docxCode = "unset"
    /\ Len(editLog) < MaxEdits
    /\ \E i \in 1..Len(actual_runs) :
       \E k \in 1..(Len(actual_runs[i].text) - 1) :
       \E n1 \in DocxFonts, n2 \in DocxFonts :
          LET r == actual_runs[i]
              a == [r EXCEPT !.text = SubSeq(r.text, 1, k), !.font_name = n1]
              b == [r EXCEPT !.text = SubSeq(r.text, k + 1, Len(r.text)),
                             !.font_name = n2]
          IN  /\ normalize_formatting(a) = normalize_formatting(r)
              /\ normalize_formatting(b) = normalize_formatting(r)
              /\ actual_runs' = ReplaceRun(actual_runs, i, <<a, b>>)
    /\ editLog' = Append(editLog, "split")
    /\ UNCHANGED <<golden_runs, docxCode>>

\* The candidate was saved with two adjacent runs of identical normalized
\* formatting written as one run.
EditMerge ==
    /\ docxCode = "unset"
    /\ Len(editLog) < MaxEdits
    /\ \E i \in 1..(Len(actual_runs) - 1) :
          LET r == actual_runs[i]
              n == actual_runs[i + 1]
          IN  /\ normalize_formatting(r) = normalize_formatting(n)
              /\ actual_runs' =
                    SubSeq(actual_runs, 1, i - 1)
                    \o <<[r EXCEPT !.text = r.text \o n.text]>>
                    \o SubSeq(actual_runs, i + 2, Len(actual_runs))
    /\ editLog' = Append(editLog, "merge")
    /\ UNCHANGED <<golden_runs, docxCode>>

\* The candidate toggles bold on run i.
EditBold ==
    /\ docxCode = "unset"
    /\ Len(editLog) < MaxEdits
    /\ \E i \in 1..Len(actual_runs) :
          actual_runs' = [actual_runs EXCEPT ![i].bold = ~actual_runs[i].bold]
    /\ editLog' = Append(editLog, "bold")
    /\ UNCHANGED <<golden_runs, docxCode>>

\* is_match, error_code, error_msg = compare_runs_semantic(actual, golden, i)
DocxCompare ==
    /\ docxCode = "unset"
    /\ docxCode' = compare_runs_semantic(actual_runs, golden_runs)
    /\ UNCHANGED <<golden_runs, actual_runs, editLog>>

(***************************************************************************)
(* Word-document engine: the main block of the evaluator script            *)
(* (writer_test_evaluator.py).  A run is the sequence of its checks; every *)
(* print of a result code appends to stdout.                               *)
(***************************************************************************)

\* text.split(): the maximal runs of non-whitespace characters.
RECURSIVE SplitLoop(_, _, _)
SplitLoop(rest, word, words) ==
    IF rest = <<>>
    THEN IF word = <<>> THEN words ELSE Append(words, word)
    ELSE IF IsSpace(Head(rest))
         THEN SplitLoop(Tail(rest), <<>>,
                        IF word = <<>> THEN words ELSE Append(words, word))
         ELSE SplitLoop(Tail(rest), Append(word, Head(rest)), words)

Split(text) == SplitLoop(text, <<>>, <<>>)

\* ' '.join(para['text'].split())
normalize_paragraph_text(text) == Join(Split(text), <<" ">>)

\* text = ''.join(text_parts) of the extractor: the paragraph text is the
\* concatenation of the texts of its runs.
ParagraphText(para) == FullText(para.runs_formatting)

\* print(code, end=''); sys.exit(0).  SystemExit is not an Exception, so the
\* except clause at the end of the script does not run.
PrintAndExit(out, code) == Append(out, code)

\* Mutant: the alignment of a paragraph is checked before its style.
compare_paragraph_alignment_first(actual_para, golden_para) ==
    IF normalize_paragraph_text(ParagraphText(actual_para))
          # normalize_paragraph_text(ParagraphText(golden_para))
    THEN "FAIL_PARAGRAPH_TEXT_CHANGED"
    ELSE IF actual_para.alignment # golden_para.alignment
    THEN "FAIL_PARAGRAPH_ALIGNMENT_CHANGED"
    ELSE IF actual_para.style # golden_para.style
    THEN "FAIL_PARAGRAPH_STYLE_CHANGED"
    ELSE IF actual_para.spacing_before # golden_para.spacing_before
    THEN "FAIL_PARAGRAPH_SPACING_BEFORE_CHANGED"
    ELSE IF actual_para.spacing_after # golden_para.spacing_after
    THEN "FAIL_PARAGRAPH_SPACING_AFTER_CHANGED"
    ELSE IF actual_para.line_spacing # golden_para.line_spacing
    THEN "FAIL_PARAGRAPH_LINE_SPACING_CHANGED"
    ELSE compare_runs_semantic(actual_para.runs_formatting,
                               golden_para.runs_formatting)

\* The checks of paragraph i of the loop, in source order.
compare_paragraph(actual_para, golden_para) ==
    IF normalize_paragraph_text(ParagraphText(actual_para))
          # normalize_paragraph_text(ParagraphText(golden_para))
    THEN "FAIL_PARAGRAPH_TEXT_CHANGED"
    ELSE IF actual_para.style # golden_para.style
    THEN "FAIL_PARAGRAPH_STYLE_CHANGED"
    ELSE IF actual_para.alignment # golden_para.alignment
    THEN "FAIL_PARAGRAPH_ALIGNMENT_CHANGED"
    ELSE IF actual_para.spacing_before # golden_para.spacing_before
    THEN "FAIL_PARAGRAPH_SPACING_BEFORE_CHANGED"
    ELSE IF actual_para.spacing_after # golden_para.spacing_after
    THEN "FAIL_PARAGRAPH_SPACING_AFTER_CHANGED"
    ELSE IF actual_para.line_spacing # golden_para.line_spacing
    THEN "FAIL_PARAGRAPH_LINE_SPACING_CHANGED"
    ELSE compare_runs_semantic(actual_para.runs_formatting,
                               golden_para.runs_formatting)

\* CHECK 3: headers and footers.
compare_headers_footers(actual_hf, golden_hf) ==
    IF actual_hf.headers # golden_hf.headers THEN "FAIL_HEADERS_CHANGED"
    ELSE IF actual_hf.footers # golden_hf.footers THEN "FAIL_FOOTERS_CHANGED"
    ELSE "MATCH"

\* CHECK 4: document structure.
compare_structure(actual_structure, golden_structure) ==
    IF actual_structure.tables # golden_structure.tables
    THEN "FAIL_TABLE_COUNT_CHANGED"
    ELSE IF actual_structure.images # golden_structure.images
    THEN "FAIL_IMAGE_COUNT_CHANGED"
    ELSE IF actual_structure.sections # golden_structure.sections
    THEN "FAIL_SECTION_COUNT_CHANGED"
    ELSE IF actual_structure.bookmarks # golden_structure.bookmarks
    THEN "FAIL_BOOKMARK_COUNT_CHANGED"
    ELSE IF actual_structure.footnotes # golden_structure.footnotes
    THEN "FAIL_FOOTNOTE_COUNT_CHANGED"
    ELSE IF actual_structure.endnotes # golden_structure.endnotes
    THEN "FAIL_ENDNOTE_COUNT_CHANGED"
    ELSE "MATCH"

\* The two checks of one zipped comment pair.
compare_comment(actual_comment, golden_comment) ==
    IF actual_comment.text # golden_comment.text THEN "FAIL_COMMENT_TEXT_CHANGED"
    ELSE IF actual_comment.author # golden_comment.author
    THEN "FAIL_COMMENT_AUTHOR_CHANGED"
    ELSE "MATCH"

\* The first entry of a sequence of codes that is not "MATCH".
RECURSIVE FirstCode(_)
FirstCode(codes) ==
    IF codes = <<>> THEN "MATCH"
    ELSE IF Head(codes) # "MATCH" THEN Head(codes)
    ELSE FirstCode(Tail(codes))

\* CHECK 5: comment count, the loop over the zipped comments, then the loop
\* over the zipped paragraphs for the comment placement.
compare_comments(actual_comments, golden_comments, actual_paragraphs, golden_paragraphs) ==
    IF Len(actual_comments) # Len(golden_comments) THEN "FAIL_COMMENT_COUNT_CHANGED"
    ELSE FirstCode(
            [j \in 1..Len(actual_comments) |->
                compare_comment(actual_comments[j], golden_comments[j])]
            \o [i \in 1..Len(actual_paragraphs) |->
                IF actual_paragraphs[i].has_comment # golden_paragraphs[i].has_comment
                THEN "FAIL_COMMENT_PLACEMENT_CHANGED" ELSE "MATCH"])

\* Most paragraphs and comments of the golden document, most differences
\* between the candidate and the golden document.
MaxDocParas == 2
MaxComments == 2
MaxDocEdits == 2

\* The golden document as the four extractors return it.
GoldenParagraph(i) ==
    [style |-> "Normal", alignment |-> "None", spacing_before |-> "None",
     spacing_after |-> "None", line_spacing |-> "None",
     runs_formatting |->
        <<[text |-> <<"a">>, bold |-> FALSE, italic |-> FALSE, underline |-> FALSE,
           font_size |-> "None", font_name |-> <<"Arial">>],
          [text |-> <<" ", "b">>, bold |-> TRUE, italic |-> FALSE,
           underline |-> FALSE, font_size |-> "None", font_name |-> <<"Arial">>]>>,
     has_comment |-> (i = 1)]

GoldenDoc ==
    [paragraphs_ok |-> TRUE,
     paragraphs |-> [i \in 1..MaxDocParas |-> GoldenParagraph(i)],
     hf_ok |-> TRUE,
     hf |-> [headers |-> <<"h">>, footers |-> <<"f">>],
     structure_ok |-> TRUE,
     structure |-> [tables |-> 1, images |-> 1, sections |-> 1, bookmarks |-> 1,
                    footnotes |-> 1, endnotes |-> 1],
     comments_ok |-> TRUE,
     comments |-> [j \in 1..MaxComments |-> [text |-> "c", author |-> "u"]],
     anchors |-> [j \in 1..MaxComments |-> 1]]

\* The golden documents: all comments anchored in the first paragraph, or
\* the first comment in the first paragraph and the others in the second.
\* anchors[j] is the paragraph that holds the w:commentRangeStart of comment
\* j; the paragraph extractor reduces it to the has_comment flags.
GoldenDocs ==
    { GoldenDoc,
      [GoldenDoc EXCEPT !.anchors = [j \in 1..MaxComments |-> IF j = 1 THEN 1 ELSE 2],
                        !.paragraphs[2].has_comment = TRUE] }

DocFields ==
    {"paragraphs_none", "hf_none", "structure_none", "comments_none",
     "drop_paragraph", "headers", "footers", "tables", "images", "sections",
     "bookmarks", "footnotes", "endnotes", "drop_comment"}
ParaFields ==
    {"text", "space", "style", "alignment", "spacing_before", "spacing_after",
     "line_spacing", "bold", "has_comment"}
CommentFields == {"comment_text", "comment_author", "anchor"}

\* A difference is a field and the index of the paragraph or comment (0 for
\* a field of the document).
DocEdits ==
    (DocFields \X {0}) \cup (ParaFields \X (1..MaxDocParas))
    \cup (CommentFields \X (1..MaxComments))

EditedRuns(runs, E, i) ==
    [runs EXCEPT ![1] =
        [@ EXCEPT !.text = IF <<"text", i>> \in E THEN <<"c">>
                           ELSE IF <<"space", i>> \in E THEN <<"a", " ">>
                           ELSE @,
                  !.bold = IF <<"bold", i>> \in E THEN ~@ ELSE @]]

EditedParagraph(p, E, i, anchored) ==
    [style |-> IF <<"style", i>> \in E THEN "Heading1" ELSE p.style,
     alignment |-> IF <<"alignment", i>> \in E THEN "center" ELSE p.alignment,
     spacing_before |-> IF <<"spacing_before", i>> \in E THEN "120"
                        ELSE p.spacing_before,
     spacing_after |-> IF <<"spacing_after", i>> \in E THEN "120"
                       ELSE p.spacing_after,
     line_spacing |-> IF <<"line_spacing", i>> \in E THEN "360" ELSE p.line_spacing,
     runs_formatting |-> EditedRuns(p.runs_formatting, E, i),
     has_comment |-> IF <<"has_comment", i>> \in E THEN ~anchored ELSE anchored]

\* The anchors of the candidate's comments: a re-anchored comment moves to
\* the next paragraph (from the last one to the first).
EditedAnchors(g, E) ==
    [j \in 1..(IF <<"drop_comment", 0>> \in E THEN Len(g.comments) - 1
               ELSE Len(g.comments)) |->
        IF <<"anchor", j>> \in E THEN (g.anchors[j] % Len(g.paragraphs)) + 1
        ELSE g.anchors[j]]

\* Paragraph i holds the comment range of some comment.
Anchored(anchors, i) == \E j \in 1..Len(anchors) : anchors[j] = i

Bump(n, E, field) == IF <<field, 0>> \in E THEN n + 1 ELSE n

\* The candidate document: the golden document with the differences E.
EditedDoc(g, E) ==
    [paragraphs_ok |-> <<"paragraphs_none", 0>> \notin E,
     paragraphs |->
        [i \in 1..(IF <<"drop_paragraph", 0>> \in E THEN Len(g.paragraphs) - 1
                   ELSE Len(g.paragraphs)) |->
            EditedParagraph(g.paragraphs[i], E, i,
                            Anchored(EditedAnchors(g, E), i))],
     hf_ok |-> <<"hf_none", 0>> \notin E,
     hf |-> [headers |-> IF <<"headers", 0>> \in E THEN <<"h", "x">>
                         ELSE g.hf.headers,
             footers |-> IF <<"footers", 0>> \in E THEN <<>> ELSE g.hf.footers],
     structure_ok |-> <<"structure_none", 0>> \notin E,
     structure |->
        [tables |-> Bump(g.structure.tables, E, "tables"),
         images |-> Bump(g.structure.images, E, "images"),
         sections |-> Bump(g.structure.sections, E, "sections"),
         bookmarks |-> Bump(g.structure.bookmarks, E, "bookmarks"),
         footnotes |-> Bump(g.structure.footnotes, E, "footnotes"),
         endnotes |-> Bump(g.structure.endnotes, E, "endnotes")],
     comments_ok |-> <<"comments_none", 0>> \notin E,
     comments |->
        [j \in 1..(IF <<"drop_comment", 0>> \in E THEN Len(g.comments) - 1
                   ELSE Len(g.comments)) |->
            [text |-> IF <<"comment_text", j>> \in E THEN "d" ELSE g.comments[j].text,
             author |-> IF <<"comment_author", j>> \in E THEN "v"
                        ELSE g.comments[j].author]],
     anchors |-> EditedAnchors(g, E)]

\* The sets of at most n elements of S.
RECURSIVE SubsetsUpTo(_, _)
SubsetsUpTo(S, n) ==
    IF n = 0 THEN {{}}
    ELSE SubsetsUpTo(S, n - 1) \cup {E \cup {x} : E \in SubsetsUpTo(S, n - 1), x \in S}

MainInit ==
    /\ golden_doc \in GoldenDocs
    /\ \E E \in SubsetsUpTo(DocEdits, MaxDocEdits) : actual_doc = EditedDoc(golden_doc, E)
    /\ doc_found \in BOOLEAN
    /\ golden_fetched \in BOOLEAN
    /\ mainPc = "load"
    /\ para_i = 0
    /\ stdout = <<>>

MainIdle ==
    /\ golden_doc = <<>>
    /\ actual_doc = <<>>
    /\ doc_found = FALSE
    /\ golden_fetched = FALSE
    /\ mainPc = "idle"
    /\ para_i = 0
    /\ stdout = <<>>

\* The file test, the download, the extraction of the paragraphs and CHECK 1.
\* A failed download raises out of urlretrieve into the except clause.
MainLoad ==
    /\ mainPc = "load"
    /\ IF ~doc_found
       THEN stdout' = PrintAndExit(stdout, "FAIL_FILE_NOT_FOUND") /\ mainPc' = "exit"
       ELSE IF ~golden_fetched
       THEN stdout' = Append(stdout, "FAIL_EXCEPTION") /\ mainPc' = "exit"
       ELSE IF ~actual_doc.paragraphs_ok \/ ~golden_doc.paragraphs_ok
       THEN stdout' = PrintAndExit(stdout, "FAIL_PARAGRAPH_EXTRACTION")
            /\ mainPc' = "exit"
       ELSE IF Len(actual_doc.paragraphs) # Len(golden_doc.paragraphs)
       THEN stdout' = PrintAndExit(stdout, "FAIL_PARAGRAPH_COUNT_CHANGED")
            /\ mainPc' = "exit"
       ELSE stdout' = stdout /\ mainPc' = "paragraphs"
    /\ para_i' = 1
    /\ UNCHANGED <<actual_doc, golden_doc, doc_found, golden_fetched>>

\* The verdict on paragraph para_i: exit with its code, or go on.
MainParagraphOn(code) ==
    IF code # "MATCH"
    THEN stdout' = PrintAndExit(stdout, code) /\ mainPc' = "exit" /\ para_i' = para_i
    ELSE stdout' = stdout /\ mainPc' = "paragraphs" /\ para_i' = para_i + 1

\* CHECK 2: one iteration of the loop over the paragraphs.
MainParagraph ==
    /\ mainPc = "paragraphs"
    /\ para_i <= Len(actual_doc.paragraphs)
    /\ MainParagraphOn(compare_paragraph(actual_doc.paragraphs[para_i],
                                         golden_doc.paragraphs[para_i]))
    /\ UNCHANGED <<actual_doc, golden_doc, doc_found, golden_fetched>>

\* A check section: extraction failed, a code, or on to the next section.
MainSectionOn(extracted, extraction_code, code, next) ==
    IF ~extracted
    THEN stdout' = PrintAndExit(stdout, extraction_code) /\ mainPc' = "exit"
    ELSE IF code # "MATCH"
    THEN stdout' = PrintAndExit(stdout, code) /\ mainPc' = "exit"
    ELSE stdout' = stdout /\ mainPc' = next

\* CHECK 3, after the loop over the paragraphs.
MainHeadersFooters ==
    /\ mainPc = "paragraphs"
    /\ para_i > Len(actual_doc.paragraphs)
    /\ MainSectionOn(actual_doc.hf_ok /\ golden_doc.hf_ok,
                     "FAIL_HEADER_FOOTER_EXTRACTION",
                     compare_headers_footers(actual_doc.hf, golden_doc.hf),
                     "structure")
    /\ UNCHANGED <<actual_doc, golden_doc, doc_found, golden_fetched, para_i>>

\* CHECK 4.
MainStructure ==
    /\ mainPc = "structure"
    /\ MainSectionOn(actual_doc.structure_ok /\ golden_doc.structure_ok,
                     "FAIL_STRUCTURE_EXTRACTION",
                     compare_structure(actual_doc.structure, golden_doc.structure),
                     "comments")
    /\ UNCHANGED <<actual_doc, golden_doc, doc_found, golden_fetched, para_i>>

\* CHECK 5 and the final print('SUCCESS', end='').
MainComments ==
    /\ mainPc = "comments"
    /\ MainSectionOn(actual_doc.comments_ok /\ golden_doc.comments_ok,
                     "FAIL_COMMENT_EXTRACTION",
                     compare_comments(actual_doc.comments, golden_doc.comments,
                                      actual_doc.paragraphs, golden_doc.paragraphs),
                     "success")
    /\ UNCHANGED <<actual_doc, golden_doc, doc_found, golden_fetched, para_i>>

MainSuccess ==
    /\ mainPc = "success"
    /\ stdout' = Append(stdout, "SUCCESS")
    /\ mainPc' = "exit"
    /\ UNCHANGED <<actual_doc, golden_doc, doc_found, golden_fetched, para_i>>

(***************************************************************************)
(* The shape checks of compare_pptx_files on one slide pair whose last     *)
(* shapes differ in position, image, text or bullets, and whose slide      *)
(* parts can or cannot be parsed                                           *)
(***************************************************************************)

\* Most shapes that precede the compared pair on the slide.
MaxPairPrefix == 1

\* Tables that differ in position only: a drift of left and of top from a
\* small and from a large coordinate.
PairTables ==
    {[TableShape(<<"b">>) EXCEPT !.left = l + d, !.top = 100000 + e] :
        l \in {100000, 1000000}, d \in {0, 1000, 1001, 2000, 2001},
        e \in {0, 1500, 2001}}

\* Pictures that differ in image bytes and border.
PairPictures ==
    {[PictureShape(h) EXCEPT !.line = ln] :
        h \in {"h1", "h2", "ERR"},
        ln \in {NoLine, [dash_style |-> "dash", width |-> 12700, color |-> "000000"]}}

\* Texts that differ in the length or kind of their whitespace runs and in
\* leading whitespace only, and one text that differs in its letters.
PairTexts ==
    { <<"a", " ", "b">>, <<"a", " ", " ", "b">>, <<"a", "TAB", "b">>,
      <<" ", "a", " ", "b">>, <<"a", "b">> }

\* Text boxes and tables that differ in their text only.
PairTextShapes ==
    {TextShape("TEXT_BOX", t, 200000) : t \in PairTexts}
        \cup {TableShape(t) : t \in PairTexts}

\* Text boxes of one paragraph "a" that differ in the paragraph properties
\* the bullet extraction reads: no a:pPr element at all, or one with or
\* without a lvl attribute and with or without a bullet character.
PairBulletShapes ==
    {[TextShape("TEXT_BOX", <<"a">>, 200000) EXCEPT
         !.paras = <<[Para(<<"a">>, "None") EXCEPT
                         !.pPr = TRUE, !.lvl = lvl, !.buChar = ch]>>] :
        lvl \in {"None", "0", "1"}, ch \in {"No Bullet", "*"}}
    \cup {TextShape("TEXT_BOX", <<"a">>, 200000)}

PairShapes == PairTables \cup PairPictures \cup PairTextShapes \cup PairBulletShapes

\* The shapes before the compared pair, the same on both slides.
PairPrefixes ==
    {[i \in 1..n |-> PictureShape("ERR")] : n \in 0..MaxPairPrefix}

PairInit ==
    /\ pairPre \in PairPrefixes
    /\ pairTest \in PairShapes
    /\ pairGolden \in PairShapes
    /\ pairOut = Running
    /\ pairPc = "slide"
    /\ pairBlob1 \in BOOLEAN
    /\ pairBlob2 \in BOOLEAN

PairIdle ==
    /\ pairPre = <<>>
    /\ pairTest = NoLine
    /\ pairGolden = NoLine
    /\ pairOut = Running
    /\ pairPc = "idle"
    /\ pairBlob1 = TRUE
    /\ pairBlob2 = TRUE

\* The shape checks of the slide pair: shape count, match loop, pair checks,
\* unmatched-golden check and text pass.
PairCompareOn(out) ==
    /\ pairOut' = [result |-> out.result, log |-> out.log]
    /\ pairPc' = "done"

PairCompare ==
    /\ pairPc = "slide"
    /\ PairCompareOn(compare_slide_parts(Append(pairPre, pairTest),
                                         Append(pairPre, pairGolden),
                                         pairBlob1, pairBlob2))
    /\ UNCHANGED <<pairPre, pairTest, pairGolden, pairBlob1, pairBlob2>>

(***************************************************************************)
(* find_matching_shape on one target, one candidate list and one set of    *)
(* used indices                                                            *)
(***************************************************************************)

\* Longest candidate list.
MaxCands == 3

\* Shapes that differ in what the score reads: type, text, image hash and
\* position (next to the others, within 0.5 inch, farther away).
FindShapes ==
    { TextShape("TEXT_BOX", <<"a">>, 200000),
      TextShape("TEXT_BOX", <<"a", "b">>, 200000),
      TextShape("AUTO_SHAPE", <<"a">>, 200000),
      [TextShape("TEXT_BOX", <<"a">>, 200000) EXCEPT !.left = 300000],
      PictureShape("h1"),
      [PictureShape("h2") EXCEPT !.top = 700000],
      PictureShape("ERR"),
      TableShape(<<"b">>) }

FindInit ==
    /\ findTarget \in FindShapes
    /\ findCands \in SeqsUpTo(FindShapes, MaxCands)
    /\ findUsed \in SUBSET (1..Len(findCands))
    /\ findIdx = 0
    /\ findPc = "call"

FindIdle ==
    /\ findTarget = NoLine
    /\ findCands = <<>>
    /\ findUsed = {}
    /\ findIdx = 0
    /\ findPc = "idle"

\* golden_shape, golden_idx = find_matching_shape(target, candidates, used)
FindMatch ==
    /\ findPc = "call"
    /\ findIdx' = find_matching_shape(findTarget, findCands, findUsed)
    /\ findPc' = "ret"
    /\ UNCHANGED <<findTarget, findCands, findUsed>>

(***************************************************************************)
(* The batch loop of main over the test files: one run_evaluator call per  *)
(* file, all of them writing the module-level mismatch_log                 *)
(***************************************************************************)

\* Most test files of a batch.
MaxBatch == 3

\* The text of a message the comparison of the k-th file produces.
Msg(k, kind) == kind \o "@" \o ToString(k)

\* How a comparison ends: it returns 1, it logs a mismatch and returns 0, or
\* it raises (a file that cannot be opened, an attribute that is missing).
Endings == {"match", "mismatch", "raise"}

\* Mutant: the log of the previous comparison is kept.
ResetLog_keep(old) == old

\* global mismatch_log; mismatch_log = [] at the start of compare_pptx_files.
ResetLog(old) == <<>>

\* mismatch_log after the comparison of the k-th file, which logs nWarn
\* image-hash warnings and then ends.
compare_pptx_files_log(old, k, nWarn, ending) ==
    ResetLog(old) \o [i \in 1..nWarn |-> Msg(k, "warning")]
                  \o (IF ending = "mismatch" THEN <<Msg(k, "mismatch")>> ELSE <<>>)

\* run_evaluator: the result of the comparison and mismatch_log[0], None when
\* nothing was logged.
run_evaluator(call) ==
    [result |-> call.result,
     reason |-> IF call.log # <<>> THEN call.log[1] ELSE "None"]

\* run_evaluator with its except clause: (0, str(e)) when the comparison
\* raised.
run_evaluator_try(log, k, ending) ==
    IF ending = "raise" THEN [result |-> 0, reason |-> Msg(k, "exception")]
    ELSE run_evaluator([result |-> IF ending = "match" THEN 1 ELSE 0, log |-> log])

BatchInit ==
    /\ mismatch_log = <<>>
    /\ batchFiles \in 0..MaxBatch
    /\ batchDone = <<>>
    /\ batchReports = <<>>
    /\ batchPc = "loop"

BatchIdle ==
    /\ mismatch_log = <<>>
    /\ batchFiles = 0
    /\ batchDone = <<>>
    /\ batchReports = <<>>
    /\ batchPc = "idle"

\* One iteration of the loop over test_files, the comparison of the file
\* logging `log`.
BatchRunOn(k, nWarn, ending, log) ==
    /\ mismatch_log' = log
    /\ batchDone' = Append(batchDone, [nWarn |-> nWarn, ending |-> ending])
    /\ batchReports' = Append(batchReports, run_evaluator_try(log, k, ending))

BatchRun ==
    /\ batchPc = "loop"
    /\ Len(batchReports) < batchFiles
    /\ \E nWarn \in 0..1, ending \in Endings :
          BatchRunOn(Len(batchReports) + 1, nWarn, ending,
                     compare_pptx_files_log(mismatch_log, Len(batchReports) + 1,
                                            nWarn, ending))
    /\ UNCHANGED <<batchFiles, batchPc>>

\* After the last file: the summary and the exit.
BatchSummary ==
    /\ batchPc = "loop"
    /\ Len(batchReports) = batchFiles
    /\ batchPc' = "exit"
    /\ UNCHANGED <<mismatch_log, batchFiles, batchDone, batchReports>>

(***************************************************************************)
(* The fill/outline-aware comparator (temp_refactored_2.py) on one slide   *)
(* pair of one shape each                                                  *)
(*                                                                         *)
(* A shape of this comparator is [shape, rgb, alpha, scheme]: the shape as *)
(* above and what the three regular expressions of compare_shape_fill find *)
(* in the serialized XML of its element, in document order.                *)
(***************************************************************************)

\* The strings the fill expressions can find, in the order of Python's
\* string comparison (digits before capitals before small letters).
FillStrings == <<"00FF00", "50000", "FF0000", "accent1">>

Repeat(v, n) == [i \in 1..n |-> v]

Count(seq, v) == Cardinality({i \in 1..Len(seq) : seq[i] = v})

\* sorted(found): the strings found, every occurrence kept, in ascending order.
RECURSIVE SortedFrom(_, _)
SortedFrom(found, k) ==
    IF k > Len(FillStrings) THEN <<>>
    ELSE Repeat(FillStrings[k], Count(found, FillStrings[k])) \o SortedFrom(found, k + 1)

sorted(found) == SortedFrom(found, 1)

compare_shape_fill(fshape1, fshape2) ==
    IF sorted(fshape1.rgb) # sorted(fshape2.rgb) THEN "Fill color mismatch"
    ELSE IF sorted(fshape1.alpha) # sorted(fshape2.alpha) THEN "Transparency mismatch"
    ELSE IF sorted(fshape1.scheme) # sorted(fshape2.scheme) THEN "Scheme color mismatch"
    ELSE "ok"

\* hasattr(shape, 'line'): graphic frames (tables) and groups have no line.
HasLine(shape) == shape.type \notin {"TABLE", "GROUP"}

compare_shape_outline(shape1, shape2) ==
    IF ~HasLine(shape1) \/ ~HasLine(shape2) THEN "ok"
    ELSE IF shape1.line.dash_style # shape2.line.dash_style
    THEN "Outline style mismatch"
    ELSE IF ~is_approximately_equal(shape1.line.width, shape2.line.width,
                                    BorderTolerance)
    THEN "Outline width mismatch"
    ELSE IF HasRgb(shape1.line.color) /\ HasRgb(shape2.line.color)
            /\ shape1.line.color # shape2.line.color
    THEN "Outline color mismatch"
    ELSE "ok"

\* The border checks of this comparator's compare_picture_shape: there is no
\* colour type check.
PictureBorderRgb(line1, line2) ==
    IF line1.dash_style # line2.dash_style THEN "Border style mismatch"
    ELSE IF ~is_approximately_equal(line1.width, line2.width, BorderTolerance)
         THEN "Border width mismatch"
    ELSE IF HasRgb(line1.color) /\ HasRgb(line2.color) /\ line1.color # line2.color
         THEN "Border color mismatch"
    ELSE "ok"

compare_picture_shape_rgb(shape1, shape2) ==
    Chain(Verdict(IF \/ ~is_approximately_equal(shape1.left, shape2.left, DefaultTolerance)
                     \/ ~is_approximately_equal(shape1.top, shape2.top, DefaultTolerance)
                  THEN "PICTURE: Position mismatch" ELSE "ok"),
    Chain(Verdict(IF \/ ~is_approximately_equal(shape1.width, shape2.width, DefaultTolerance)
                     \/ ~is_approximately_equal(shape1.height, shape2.height, DefaultTolerance)
                  THEN "PICTURE: Dimension mismatch" ELSE "ok"),
    Chain(PictureHash(shape1.hash, shape2.hash),
          Verdict(PictureBorderRgb(shape1.line, shape2.line)))))

\* The type-specific, geometry and text checks of a matched pair.
compare_pair_content(shape1, shape2, part1, part2) ==
    Chain(IF shape1.type = "PICTURE" THEN compare_picture_shape_rgb(shape1, shape2)
          ELSE Ret(1, <<>>),
    Chain(IF shape1.type = "TABLE" THEN compare_table_shape(shape1, shape2)
          ELSE Ret(1, <<>>),
    Chain(Verdict(IF compare_shape_geometry(shape1, shape2) THEN "ok"
                  ELSE "Geometry mismatch"),
          IF HasText(shape1) /\ HasText(shape2)
          THEN compare_text_shape(shape1, shape2, part1, part2)
          ELSE Ret(1, <<>>))))

\* Mutant: fill and outline are checked after the other checks.
compare_fill_pair_last(fshape1, fshape2, part1, part2) ==
    Chain(compare_pair_content(fshape1.shape, fshape2.shape, part1, part2),
    Chain(Verdict(compare_shape_fill(fshape1, fshape2)),
          Verdict(compare_shape_outline(fshape1.shape, fshape2.shape))))

\* The checks of one matched pair: fill and outline first, then the
\* type-specific checks, the geometry and the text.
compare_fill_pair(fshape1, fshape2, part1, part2) ==
    Chain(Verdict(compare_shape_fill(fshape1, fshape2)),
    Chain(Verdict(compare_shape_outline(fshape1.shape, fshape2.shape)),
          compare_pair_content(fshape1.shape, fshape2.shape, part1, part2)))

\* The match loop on a slide pair of one shape each, golden_idx being what
\* find_matching_shape returned for the test shape.
fill_match_loop(fshape1, fshape2, golden_idx) ==
    IF golden_idx = -1 THEN Ret(0, <<"No matching shape">>)
    ELSE compare_fill_pair(fshape1, fshape2,
                           [blob_ok |-> TRUE, shapes |-> <<fshape1.shape>>],
                           [blob_ok |-> TRUE, shapes |-> <<fshape2.shape>>])

\* What the fill expressions find in the shapes of the machine.
FillLists ==
    [rgb : { <<>>, <<"FF0000">>, <<"FF0000", "FF0000">>,
             <<"FF0000", "00FF00">>, <<"00FF00", "FF0000">> },
     alpha : { <<>>, <<"50000">> },
     scheme : { <<>>, <<"accent1">> }]

\* The shapes of the machine: text boxes that differ in width and in text,
\* pictures that differ in image, all of them with or without a dashed
\* outline.
FillBaseShapes ==
    {[b EXCEPT !.line = ln] :
        b \in { TextShape("TEXT_BOX", <<"a">>, 200000),
                TextShape("TEXT_BOX", <<"a">>, 300000),
                TextShape("TEXT_BOX", <<"b">>, 200000),
                PictureShape("h1"), PictureShape("h2") },
        ln \in {NoLine, [dash_style |-> "dash", width |-> 12700, color |-> "None"]}}

FillShapes ==
    {[shape |-> b, rgb |-> f.rgb, alpha |-> f.alpha, scheme |-> f.scheme] :
        b \in FillBaseShapes, f \in FillLists}

FillInit ==
    /\ fillTest \in FillShapes
    /\ fillGolden \in FillShapes
    /\ fillOut = Running
    /\ fillPc = "slide"

FillIdle ==
    /\ fillTest = NoLine
    /\ fillGolden = NoLine
    /\ fillOut = Running
    /\ fillPc = "idle"

\* After the match loop, which returned `pair` with the golden index
\* golden_idx: the unmatched-golden check and the text pass.
FillCompareOn(pair, golden_idx) ==
    LET out == AfterMatchLoop([result |-> pair.result, log |-> pair.log,
                               pairing |-> <<golden_idx>>,
                               used |-> {golden_idx} \ {-1}],
                              <<fillGolden.shape>>,
                              get_all_text_shapes(<<fillTest.shape>>),
                              get_all_text_shapes(<<fillGolden.shape>>))
    IN  /\ fillOut' = [result |-> out.result, log |-> out.log]
        /\ fillPc' = "done"

\* The shape checks of the slide pair: match loop with the pair checks,
\* unmatched-golden check and text pass.
FillCompare ==
    /\ fillPc = "slide"
    /\ FillCompareOn(fill_match_loop(fillTest, fillGolden,
                                     find_matching_shape(fillTest.shape,
                                                         <<fillGolden.shape>>, {})),
                     find_matching_shape(fillTest.shape, <<fillGolden.shape>>, {}))
    /\ UNCHANGED <<fillTest, fillGolden>>

(***************************************************************************)
(* Specifications                                                          *)
(***************************************************************************)

SpecTolInit == TolInit /\ RunIdle /\ MergeIdle /\ DocxIdle /\ CmpIdle /\ MainIdle /\ PairIdle /\ FindIdle /\ BatchIdle /\ FillIdle
SpecTolNext == TolEval /\ UNCHANGED <<runVars, mergeVars, docxVars, cmpVars, mainVars, pairVars, findVars, batchVars, fillVars>>
SpecTol == SpecTolInit /\ [][SpecTolNext]_vars

SpecRunInit == RunInit /\ TolIdle /\ MergeIdle /\ DocxIdle /\ CmpIdle /\ MainIdle /\ PairIdle /\ FindIdle /\ BatchIdle /\ FillIdle
SpecRunNext ==
    \/ RunCompare /\ UNCHANGED <<tolVars, mergeVars, docxVars, cmpVars, mainVars, pairVars, findVars, batchVars, fillVars>>
    \/ RunCompareCell /\ UNCHANGED <<tolVars, mergeVars, docxVars, cmpVars, mainVars, pairVars, findVars, batchVars, fillVars>>
SpecRun == SpecRunInit /\ [][SpecRunNext]_vars

SpecMergeInit == MergeInit /\ TolIdle /\ RunIdle /\ DocxIdle /\ CmpIdle /\ MainIdle /\ PairIdle /\ FindIdle /\ BatchIdle /\ FillIdle
SpecMergeNext ==
    \/ MergeOnce /\ UNCHANGED <<tolVars, runVars, docxVars, cmpVars, mainVars, pairVars, findVars, batchVars, fillVars>>
    \/ MergeTwice /\ UNCHANGED <<tolVars, runVars, docxVars, cmpVars, mainVars, pairVars, findVars, batchVars, fillVars>>
SpecMerge == SpecMergeInit /\ [][SpecMergeNext]_vars

SpecDocxInit == DocxInit /\ TolIdle /\ RunIdle /\ MergeIdle /\ CmpIdle /\ MainIdle /\ PairIdle /\ FindIdle /\ BatchIdle /\ FillIdle
SpecDocxNext ==
    \/ EditSplit /\ UNCHANGED <<tolVars, runVars, mergeVars, cmpVars, mainVars, pairVars, findVars, batchVars, fillVars>>
    \/ EditMerge /\ UNCHANGED <<tolVars, runVars, mergeVars, cmpVars, mainVars, pairVars, findVars, batchVars, fillVars>>
    \/ EditBold /\ UNCHANGED <<tolVars, runVars, mergeVars, cmpVars, mainVars, pairVars, findVars, batchVars, fillVars>>
    \/ DocxCompare /\ UNCHANGED <<tolVars, runVars, mergeVars, cmpVars, mainVars, pairVars, findVars, batchVars, fillVars>>
SpecDocx == SpecDocxInit /\ [][SpecDocxNext]_vars

SpecCmpInit == CmpInit /\ TolIdle /\ RunIdle /\ MergeIdle /\ DocxIdle /\ MainIdle /\ PairIdle /\ FindIdle /\ BatchIdle /\ FillIdle
SpecCmpNext ==
    \/ CmpStart /\ UNCHANGED <<tolVars, runVars, mergeVars, docxVars, mainVars, pairVars, findVars, batchVars, fillVars>>
    \/ CmpHeader /\ UNCHANGED <<tolVars, runVars, mergeVars, docxVars, mainVars, pairVars, findVars, batchVars, fillVars>>
    \/ CmpShapes /\ UNCHANGED <<tolVars, runVars, mergeVars, docxVars, mainVars, pairVars, findVars, batchVars, fillVars>>
    \/ CmpNextSlide /\ UNCHANGED <<tolVars, runVars, mergeVars, docxVars, mainVars, pairVars, findVars, batchVars, fillVars>>
SpecCmp == SpecCmpInit /\ [][SpecCmpNext]_vars

SpecMainInit == MainInit /\ TolIdle /\ RunIdle /\ MergeIdle /\ DocxIdle /\ CmpIdle /\ PairIdle /\ FindIdle /\ BatchIdle /\ FillIdle
SpecMainNext ==
    \/ MainLoad /\ UNCHANGED <<tolVars, runVars, mergeVars, docxVars, cmpVars, pairVars, findVars, batchVars, fillVars>>
    \/ MainParagraph /\ UNCHANGED <<tolVars, runVars, mergeVars, docxVars, cmpVars, pairVars, findVars, batchVars, fillVars>>
    \/ MainHeadersFooters /\ UNCHANGED <<tolVars, runVars, mergeVars, docxVars, cmpVars, pairVars, findVars, batchVars, fillVars>>
    \/ MainStructure /\ UNCHANGED <<tolVars, runVars, mergeVars, docxVars, cmpVars, pairVars, findVars, batchVars, fillVars>>
    \/ MainComments /\ UNCHANGED <<tolVars, runVars, mergeVars, docxVars, cmpVars, pairVars, findVars, batchVars, fillVars>>
    \/ MainSuccess /\ UNCHANGED <<tolVars, runVars, mergeVars, docxVars, cmpVars, pairVars, findVars, batchVars, fillVars>>
SpecMain == SpecMainInit /\ [][SpecMainNext]_vars

SpecPairInit == PairInit /\ TolIdle /\ RunIdle /\ MergeIdle /\ DocxIdle /\ CmpIdle /\ MainIdle /\ FindIdle /\ BatchIdle /\ FillIdle
SpecPairNext ==
    \/ PairCompare /\ UNCHANGED <<tolVars, runVars, mergeVars, docxVars, cmpVars, mainVars, findVars, batchVars, fillVars>>
SpecPair == SpecPairInit /\ [][SpecPairNext]_vars

SpecFindInit == FindInit /\ TolIdle /\ RunIdle /\ MergeIdle /\ DocxIdle /\ CmpIdle /\ MainIdle /\ PairIdle /\ BatchIdle /\ FillIdle
SpecFindNext ==
    \/ FindMatch /\ UNCHANGED <<tolVars, runVars, mergeVars, docxVars, cmpVars, mainVars, pairVars, batchVars, fillVars>>
SpecFind == SpecFindInit /\ [][SpecFindNext]_vars

SpecBatchInit == BatchInit /\ TolIdle /\ RunIdle /\ MergeIdle /\ DocxIdle /\ CmpIdle /\ MainIdle /\ PairIdle /\ FindIdle /\ FillIdle
SpecBatchNext ==
    \/ BatchRun /\ UNCHANGED <<tolVars, runVars, mergeVars, docxVars, cmpVars, mainVars, pairVars, findVars, fillVars>>
    \/ BatchSummary /\ UNCHANGED <<tolVars, runVars, mergeVars, docxVars, cmpVars, mainVars, pairVars, findVars, fillVars>>
SpecBatch == SpecBatchInit /\ [][SpecBatchNext]_vars

SpecFillInit == FillInit /\ TolIdle /\ RunIdle /\ MergeIdle /\ DocxIdle /\ CmpIdle /\ MainIdle /\ PairIdle /\ FindIdle /\ BatchIdle
SpecFillNext ==
    \/ FillCompare /\ UNCHANGED <<tolVars, runVars, mergeVars, docxVars, cmpVars, mainVars, pairVars, findVars, batchVars>>
SpecFill == SpecFillInit /\ [][SpecFillNext]_vars

(***************************************************************************)
(* Claims about the tolerance comparator (SpecTol)                         *)
(***************************************************************************)

\* C3: is_approximately_equal(a, b) returns the reference verdict: true if
\* a = b; else true if |a-b| <= 1000; else false if a = 0 or b = 0; else
\* true iff |a-b| / max(|a|,|b|) <= 0.005, i.e. 1000*|a-b| <= 5*max(|a|,|b|).
C3_ApproxEqualsReference ==
    tolPc = "ret" =>
        (approx <=>
            (\/ val1 = val2
             \/ Abs(val1 - val2) <= 1000
             \/ /\ val1 # 0
                /\ val2 # 0
                /\ 1000 * Abs(val1 - val2) <= 5 * Max(Abs(val1), Abs(val2))))

\* Witness of C3: the percentage branch decided a call, once each way.
C3_Witness ==
    /\ tolPc = "ret"
    /\ approx
    /\ val1 # 0
    /\ val2 # 0
    /\ Abs(val1 - val2) > 1000

\* C4 as stated: (v, v + 1000) is accepted, and (v, v + 1001) is rejected
\* whenever 1001 exceeds 0.5% of v.
C4_BoundaryAsStated ==
    /\ (tolPc = "ret" /\ val2 = val1 + 1000) => approx
    /\ (tolPc = "ret" /\ val2 = val1 + 1001 /\ 1001 * 1000 > 5 * val1) => ~approx

\* C4 amended: (v, v + 1000) is accepted, and (v, v + 1001) is rejected
\* exactly when 1001 exceeds 0.5% of the larger magnitude of v and v + 1001.
C4_BoundaryAmended ==
    /\ (tolPc = "ret" /\ val2 = val1 + 1000) => approx
    /\ (tolPc = "ret" /\ val2 = val1 + 1001) =>
          (~approx <=> 1001 * 1000 > 5 * Max(Abs(val1), Abs(val1 + 1001)))

\* Witness of C4: a (v, v + 1001) call rejected although v is not small.
C4_Witness ==
    /\ tolPc = "ret"
    /\ val2 = val1 + 1001
    /\ val1 >= 199198
    /\ ~approx

(***************************************************************************)
(* Claims about the per-run checks (SpecRun)                               *)
(***************************************************************************)

\* C5: fonts_effectively_equal(a, b) on {None, False, True} is true iff a = b
\* or both are in {None, False}, and it is the verdict of the bold and the
\* italic check of a run pair: with equal font name and size the run check
\* reports a bold mismatch iff the bold values are not equivalent, and with
\* equivalent bold values an italic mismatch iff the italic values are not.
C5_BooleanEquivalence ==
    runReason \notin {"unset", "idle"} =>
        LET Equiv(a, b) == a = b \/ ({a, b} \subseteq {"None", "False"})
            sameHead == run1.name = run2.name /\ run1.size = run2.size
        IN  /\ fonts_effectively_equal(run1.bold, run2.bold)
                  <=> Equiv(run1.bold, run2.bold)
            /\ fonts_effectively_equal(run1.italic, run2.italic)
                  <=> Equiv(run1.italic, run2.italic)
            /\ sameHead =>
                  (runReason = "Font bold mismatch" <=> ~Equiv(run1.bold, run2.bold))
            /\ (sameHead /\ Equiv(run1.bold, run2.bold)) =>
                  (runReason = "Font italic mismatch"
                      <=> ~Equiv(run1.italic, run2.italic))

\* Witness of C5: bold None against False passed and italic None against
\* True was reported.
C5_Witness ==
    /\ runReason = "Font italic mismatch"
    /\ run1.bold = "None"
    /\ run2.bold = "False"
    /\ run1.italic = "None"
    /\ run2.italic = "True"

(***************************************************************************)
(* Claims about the word-document run formatting (SpecMerge, SpecDocx)     *)
(***************************************************************************)

\* C8: merging consecutive runs twice yields the same list of segments (same
\* number, same text and formatting per segment) as merging once.
C8_MergeIdempotent ==
    mergePc = "remerged" => mergeAgain = mergeOut

\* Witness of C8: a list in which runs were merged, and one segment kept
\* apart, has been merged twice.
C8_Witness ==
    /\ mergePc = "remerged"
    /\ Len(mergeIn) = 3
    /\ Len(mergeOut) = 2

\* C9: a candidate obtained from the golden run list by splitting runs into
\* adjacent runs of identical normalized formatting, or by merging such
\* runs, compares as a match.
C9_SplitInvisible ==
    (/\ docxCode \notin {"unset", "idle"}
     /\ \A e \in 1..Len(editLog) : editLog[e] \in {"split", "merge"})
        => docxCode = "MATCH"

\* Witness of C9: a run of a two-format paragraph was split and the
\* comparison matched.
C9_Witness ==
    /\ docxCode = "MATCH"
    /\ editLog = <<"split">>
    /\ Len(golden_runs) = 2
    /\ golden_runs[1].bold # golden_runs[2].bold
    /\ Len(actual_runs) = 3

\* The case of C10: the golden paragraph is two adjacent bold runs of
\* identical formatting and the candidate removed bold from the second.
C10_Case ==
    /\ docxCode \notin {"unset", "idle"}
    /\ Len(golden_runs) = 2
    /\ golden_runs[1].bold
    /\ golden_runs[2].bold
    /\ normalize_formatting(golden_runs[1]) = normalize_formatting(golden_runs[2])
    /\ actual_runs = [golden_runs EXCEPT ![2].bold = FALSE]

\* C10: in that case the comparator reports FAIL_RUN_BOLD_CHANGED.
C10_ReportsBoldChanged ==
    C10_Case => docxCode = "FAIL_RUN_BOLD_CHANGED"

(***************************************************************************)
(* Claims about compare_pptx_files (SpecCmp)                               *)
(***************************************************************************)

HashFailed == "PICTURE: Image hash comparison failed"

C2_FailureSymmetric ==
    (cmpPc = "done" /\ fwd.result = 0) => rev.result = 0

\* C6: when the test shapes and the golden shapes of a slide are exact
\* duplicates index by index, every test shape receives a match, the matched
\* golden indices are pairwise distinct, and no golden index stays unused.
C6_MatchingComplete ==
    shapes1 = shapes2 =>
        LET n == Len(shapes1) IN
        /\ Len(pairing) = n
        /\ \A i \in 1..n : pairing[i] \in 1..n
        /\ \A i, j \in 1..n : i # j => pairing[i] # pairing[j]
        /\ {pairing[i] : i \in 1..n} = 1..n

\* C6 witness: the matcher has been run on a slide whose two test shapes are
\* identical to each other and to the two golden shapes.
C6_Witness ==
    /\ Len(shapes1) = MaxShapes /\ shapes1 = shapes2
    /\ \A i \in 1..Len(shapes1) : shapes1[i] = shapes1[1]
    /\ Len(pairing) = MaxShapes

\* C7: the fuzzy-matching comparator returns Match whenever every slide's
\* test shape list is a permutation of the golden shape list and the content
\* is otherwise identical.
C7_ReorderingTolerated ==
    (cmpPc = "done" /\ permDoc) => fwd.result = 1

\* C11: whenever compare_pptx_files returns 0, nothing is logged after the
\* message of the failing check, and the reason run_evaluator reports is that
\* message (the last entry of the log, the one written right before return 0).
C11_ReasonIsTerminatingFailure ==
    (cmpPc = "done" /\ fwd.result = 0) =>
        /\ fwd.log # <<>>
        /\ run_evaluator(fwd).reason = fwd.log[Len(fwd.log)]

(***************************************************************************)
(* Claims about the main block of the word-document evaluator (SpecMain)   *)
(***************************************************************************)

Min(x, y) == IF x <= y THEN x ELSE y

\* code when the two values differ
Differs(x, y, code) == IF x # y THEN code ELSE "MATCH"

\* The checks of C12 on paragraph pair i, one by one, in the stated order.
C12_ParagraphChecks(a, g) ==
    << Differs(normalize_paragraph_text(ParagraphText(a)),
               normalize_paragraph_text(ParagraphText(g)),
               "FAIL_PARAGRAPH_TEXT_CHANGED"),
       Differs(a.style, g.style, "FAIL_PARAGRAPH_STYLE_CHANGED"),
       Differs(a.alignment, g.alignment, "FAIL_PARAGRAPH_ALIGNMENT_CHANGED"),
       Differs(a.spacing_before, g.spacing_before,
               "FAIL_PARAGRAPH_SPACING_BEFORE_CHANGED"),
       Differs(a.spacing_after, g.spacing_after,
               "FAIL_PARAGRAPH_SPACING_AFTER_CHANGED"),
       Differs(a.line_spacing, g.line_spacing, "FAIL_PARAGRAPH_LINE_SPACING_CHANGED"),
       compare_runs_semantic(a.runs_formatting, g.runs_formatting) >>

RECURSIVE C12_Flatten(_)
C12_Flatten(lists) ==
    IF lists = <<>> THEN <<>> ELSE Head(lists) \o C12_Flatten(Tail(lists))

\* Every check of C12 on two documents, in the stated order; each entry is
\* the code of the check when it is violated and "MATCH" when it is not.
C12_Checks(a, g) ==
    << Differs(Len(a.paragraphs), Len(g.paragraphs), "FAIL_PARAGRAPH_COUNT_CHANGED") >>
    \o C12_Flatten([i \in 1..Min(Len(a.paragraphs), Len(g.paragraphs)) |->
                       C12_ParagraphChecks(a.paragraphs[i], g.paragraphs[i])])
    \o << Differs(a.hf.headers, g.hf.headers, "FAIL_HEADERS_CHANGED"),
          Differs(a.hf.footers, g.hf.footers, "FAIL_FOOTERS_CHANGED"),
          Differs(a.structure.tables, g.structure.tables, "FAIL_TABLE_COUNT_CHANGED"),
          Differs(a.structure.images, g.structure.images, "FAIL_IMAGE_COUNT_CHANGED"),
          Differs(a.structure.sections, g.structure.sections,
                  "FAIL_SECTION_COUNT_CHANGED"),
          Differs(a.structure.bookmarks, g.structure.bookmarks,
                  "FAIL_BOOKMARK_COUNT_CHANGED"),
          Differs(a.structure.footnotes, g.structure.footnotes,
                  "FAIL_FOOTNOTE_COUNT_CHANGED"),
          Differs(a.structure.endnotes, g.structure.endnotes,
                  "FAIL_ENDNOTE_COUNT_CHANGED"),
          Differs(Len(a.comments), Len(g.comments), "FAIL_COMMENT_COUNT_CHANGED") >>
    \o C12_Flatten([j \in 1..Min(Len(a.comments), Len(g.comments)) |->
                       << Differs(a.comments[j].text, g.comments[j].text,
                                  "FAIL_COMMENT_TEXT_CHANGED"),
                          Differs(a.comments[j].author, g.comments[j].author,
                                  "FAIL_COMMENT_AUTHOR_CHANGED") >>])
    \o [i \in 1..Min(Len(a.paragraphs), Len(g.paragraphs)) |->
           Differs(a.paragraphs[i].has_comment, g.paragraphs[i].has_comment,
                   "FAIL_COMMENT_PLACEMENT_CHANGED")]

\* The code of the first violated check, SUCCESS when no check is violated.
C12_Code(first) == IF first = "MATCH" THEN "SUCCESS" ELSE first

C12_Expected == C12_Code(FirstCode(C12_Checks(actual_doc, golden_doc)))

\* The candidate file exists, the golden file was downloaded, and the four
\* extractors returned a value for both documents.
C12_Loaded ==
    /\ doc_found /\ golden_fetched
    /\ actual_doc.paragraphs_ok /\ golden_doc.paragraphs_ok
    /\ actual_doc.hf_ok /\ golden_doc.hf_ok
    /\ actual_doc.structure_ok /\ golden_doc.structure_ok
    /\ actual_doc.comments_ok /\ golden_doc.comments_ok

C12_LoadCodes ==
    {"FAIL_FILE_NOT_FOUND", "FAIL_EXCEPTION", "FAIL_PARAGRAPH_EXTRACTION",
     "FAIL_HEADER_FOOTER_EXTRACTION", "FAIL_STRUCTURE_EXTRACTION",
     "FAIL_COMMENT_EXTRACTION"}

\* C12 (as stated): every run of the word-document evaluator writes exactly
\* one result code to stdout, the code of the first violated check in the
\* order paragraph count, per paragraph (text, style, alignment,
\* spacing-before, spacing-after, line-spacing, run formatting), headers,
\* footers, the six structure counts, comment count, per-comment text and
\* author, per-paragraph comment presence; SUCCESS iff no check is violated.
C12_OneCodeOfFirstViolatedCheck ==
    mainPc = "exit" => stdout = <<C12_Expected>>

\* C12 (amended): every run writes exactly one result code.  A run in which
\* the candidate file is found, the golden file is downloaded and every
\* extraction succeeds writes the code of the first violated check in the
\* stated order, and SUCCESS iff no check is violated.  Any other run writes
\* either the code of a violated check or the code of the load step that
\* failed (FAIL_FILE_NOT_FOUND, FAIL_EXCEPTION, FAIL_*_EXTRACTION), and never
\* SUCCESS.
C12_OneCodePerRun ==
    /\ Len(stdout) <= 1
    /\ mainPc # "exit" => stdout = <<>>
    /\ mainPc = "exit" =>
          /\ Len(stdout) = 1
          /\ C12_Loaded => stdout[1] = C12_Expected
          /\ ~C12_Loaded =>
                /\ stdout[1] # "SUCCESS"
                /\ stdout[1] \in C12_LoadCodes
                   \/ (stdout[1] = C12_Expected /\ C12_Expected # "SUCCESS")

\* C12 witness: a run on documents that load, in which the alignment of the
\* first paragraph and the headers both differ, has written the code of the
\* earlier of the two checks, and only that.
C12_Witness ==
    /\ mainPc = "exit" /\ C12_Loaded
    /\ actual_doc.paragraphs[1].alignment # golden_doc.paragraphs[1].alignment
    /\ actual_doc.hf.headers # golden_doc.hf.headers
    /\ stdout = <<"FAIL_PARAGRAPH_ALIGNMENT_CHANGED">>

(***************************************************************************)
(* Claims about the shape checks of one slide pair (SpecPair)              *)
(***************************************************************************)

\* The last entry of mismatch_log: the message logged right before return 0.
LastLogged(log) == IF log = <<>> THEN "None" ELSE log[Len(log)]

\* The compared pair is a pair of pictures with readable, different images
\* and the same geometry and border.
C13_Case ==
    /\ pairPc = "done"
    /\ pairTest.type = "PICTURE" /\ pairGolden.type = "PICTURE"
    /\ pairTest.hash # "ERR" /\ pairGolden.hash # "ERR"
    /\ pairTest.hash # pairGolden.hash
    /\ [pairTest EXCEPT !.hash = pairGolden.hash] = pairGolden

C14_Case ==
    /\ pairPc = "done"
    /\ pairTest.type = "TABLE" /\ pairGolden.type = "TABLE"
    /\ pairTest.width = pairGolden.width /\ pairTest.height = pairGolden.height
    /\ pairTest.cells = pairGolden.cells

\* |left1 - left2| > 2000 or |top1 - top2| > 2000
C14_BeyondAbsolute ==
    \/ Abs(pairTest.left - pairGolden.left) > 2000
    \/ Abs(pairTest.top - pairGolden.top) > 2000

\* v1 and v2 differ by more than 1000 and by more than 0.5% of the larger.
C14_BeyondHybrid(v1, v2) ==
    /\ Abs(v1 - v2) > 1000
    /\ 1000 * Abs(v1 - v2) > 5 * Max(Abs(v1), Abs(v2))

\* C14 (as stated): for a matched table pair with equal size and content the
\* comparison fails iff |left1-left2| > 2000 or |top1-top2| > 2000; no other
\* tolerance decides the verdict for table position.
C14_AbsoluteOnlyAsStated ==
    C14_Case => (pairOut.result = 0 <=> C14_BeyondAbsolute)

\* C14 (amended): for a matched table pair with equal size and content the
\* comparison fails with the table position mismatch iff |left1-left2| > 2000
\* or |top1-top2| > 2000 (absolute only).  A pair within that tolerance still
\* goes through the generic geometry check, and fails with a geometry
\* mismatch iff left or top differ by more than 1000 and by more than 0.5% of
\* the larger value; otherwise it passes.
C14_AbsoluteThenGeneric ==
    C14_Case =>
        /\ (pairOut.result = 0
              /\ LastLogged(pairOut.log) = "TABLE: Position mismatch")
           <=> C14_BeyondAbsolute
        /\ (pairOut.result = 0 /\ LastLogged(pairOut.log) = "Geometry mismatch")
           <=> (/\ ~C14_BeyondAbsolute
                /\ \/ C14_BeyondHybrid(pairTest.left, pairGolden.left)
                   \/ C14_BeyondHybrid(pairTest.top, pairGolden.top))
        /\ pairOut.result = 0 =>
              LastLogged(pairOut.log) \in {"TABLE: Position mismatch",
                                           "Geometry mismatch"}
        /\ pairOut.result \in {0, 1}

\* C14 witness: a table that drifted by 2001 from a large coordinate, within
\* 0.5% of it, has been compared and failed with the table position mismatch.
C14_Witness ==
    /\ C14_Case
    /\ pairTest.top = pairGolden.top
    /\ pairTest.left = pairGolden.left + 2001
    /\ ~C14_BeyondHybrid(pairTest.left, pairGolden.left)
    /\ pairOut.result = 0
    /\ LastLogged(pairOut.log) = "TABLE: Position mismatch"

(***************************************************************************)
(* Claims about find_matching_shape (SpecFind)                             *)
(***************************************************************************)

\* The two shapes are of the same type or both of a text-bearing type.
TypeCompatible(s, c) ==
    \/ s.type = c.type
    \/ s.type \in {"TEXT_BOX", "AUTO_SHAPE", "PLACEHOLDER"}
       /\ c.type \in {"TEXT_BOX", "AUTO_SHAPE", "PLACEHOLDER"}

\* The candidates that are neither used nor of an incompatible type.
Eligible ==
    {i \in 1..Len(findCands) :
        i \notin findUsed /\ TypeCompatible(findTarget, findCands[i])}

\* C15 (as stated): find_matching_shape returns 'no match' exactly when the
\* candidate list is empty or every candidate index is already in used;
\* whenever at least one unused candidate exists a match is returned.
C15_NoMatchIffAllUsed ==
    findPc = "ret" =>
        (findIdx = -1 <=> (1..Len(findCands)) \subseteq findUsed)

\* C15 (amended): find_matching_shape returns 'no match' exactly when no
\* candidate scored above the initial sentinel, which is exactly when every
\* candidate is already in used or of a type incompatible with the target
\* (in particular when the list is empty or all used); whenever at least one
\* unused type-compatible candidate exists a match is returned.
C15_NoMatchIffNoneEligible ==
    findPc = "ret" =>
        /\ findIdx = -1 <=> Eligible = {}
        /\ (1..Len(findCands)) \subseteq findUsed => findIdx = -1
        /\ findIdx # -1 => findIdx \in 1..Len(findCands)

\* C15 witness: the matcher returned 'no match' for a table although an
\* unused candidate, a text box, was there.
C15_Witness ==
    /\ findPc = "ret"
    /\ findTarget.type = "TABLE"
    /\ Len(findCands) = 2 /\ findUsed = {1}
    /\ findCands[2].type = "TEXT_BOX"
    /\ findIdx = -1

\* The score of C17 for a candidate, from the signatures of the two shapes.
C17_TypePoints(t, c) == IF t.type = c.type THEN 10 ELSE 5

C17_TextPoints(t, c) ==
    IF t.text # <<>> /\ c.text # <<>> /\ t.text = c.text THEN 100
    ELSE IF t.text # <<>> /\ c.text # <<>>
            /\ (Contains(t.text, c.text) \/ Contains(c.text, t.text)) THEN 50
    ELSE IF t.text = <<>> /\ c.text = <<>> THEN 20
    ELSE 0

C17_HashPoints(t, c) == IF t.hash # "" /\ t.hash = c.hash THEN 100 ELSE 0

C17_PositionPoints(s, c) ==
    IF Abs(s.left - c.left) + Abs(s.top - c.top) < 100000 THEN 10
    ELSE IF Abs(s.left - c.left) + Abs(s.top - c.top) < 500000 THEN 5
    ELSE 0

C17_Score(i) ==
    C17_TypePoints(get_shape_signature(findTarget), get_shape_signature(findCands[i]))
    + C17_TextPoints(get_shape_signature(findTarget), get_shape_signature(findCands[i]))
    + C17_HashPoints(get_shape_signature(findTarget), get_shape_signature(findCands[i]))
    + C17_PositionPoints(findTarget, findCands[i])

\* C17: find_matching_shape returns the unused, type-compatible candidate
\* whose score (type 10 exact / 5 both text-bearing; text 100 exact / 50
\* substring either way / 20 both empty; image hash 100 equal; position 10 if
\* the Manhattan distance is below 100000, 5 if below 500000) is maximal,
\* the lowest index among equal maximal scores; the index is never in used.
C17_BestEligibleCandidate ==
    (findPc = "ret" /\ Eligible # {}) =>
        /\ findIdx \in Eligible
        /\ findIdx \notin findUsed
        /\ \A j \in Eligible :
              \/ C17_Score(j) < C17_Score(findIdx)
              \/ C17_Score(j) = C17_Score(findIdx) /\ findIdx <= j

\* C17 witness: the matcher returned the third of three candidates: the first
\* is used, the second scores lower on position only.
C17_Witness ==
    /\ findPc = "ret"
    /\ Len(findCands) = 3 /\ findUsed = {1}
    /\ findCands[1] = findTarget
    /\ C17_Score(2) + 5 = C17_Score(3)
    /\ C17_TextPoints(get_shape_signature(findTarget),
                      get_shape_signature(findCands[2])) = 100
    /\ findIdx = 3

(***************************************************************************)
(* More claims about compare_pptx_files (SpecCmp)                          *)
(***************************************************************************)

\* C16: whenever the fuzzy-matching comparator returns Match, on every slide
\* the pairing it built is a bijection between test shapes and golden
\* shapes: no golden shape is paired with two test shapes and none is left
\* unclaimed.  (Stated on every slide whose shape checks the call passed:
\* the call has not returned 0 when the slide is left.)
C16_PairingIsBijection ==
    (cmpPc \in {"next", "done"} /\ fwd.result # 0) =>
        /\ Len(pairing) = Len(shapes1)
        /\ \A i \in 1..Len(pairing) : pairing[i] \in 1..Len(shapes2)
        /\ \A i, j \in 1..Len(pairing) : pairing[i] = pairing[j] => i = j
        /\ \A g \in 1..Len(shapes2) : \E i \in 1..Len(pairing) : pairing[i] = g

\* C16 witness: the comparison returned 1 on a last slide whose two test
\* shapes were paired with the golden shapes in the other order.
C16_Witness ==
    /\ cmpPc = "done" /\ fwd.result = 1
    /\ Len(shapes1) = 2 /\ shapes1[1] # shapes1[2]
    /\ pairing = <<2, 1>>

(***************************************************************************)
(* More claims about compare_runs_semantic (SpecDocx)                      *)
(***************************************************************************)

\* The golden segments (merged, whitespace-only segments dropped) all share
\* one normalized formatting and the candidate's segments do not.
C18_Case ==
    /\ docxCode \notin {"unset", "idle"}
    /\ Uniform(DropBlank(merge_consecutive_runs(golden_runs)))
    /\ ~Uniform(DropBlank(merge_consecutive_runs(actual_runs)))

C19_OnlyUnderlineDiffers ==
    \A f \in (DOMAIN run1) \ {"underline"} : run1[f] = run2[f]

\* One underline is absent and the other is an explicit True.
C19_AbsentVsTrue ==
    \/ run1.underline = "None" /\ run2.underline = "True"
    \/ run1.underline = "True" /\ run2.underline = "None"

\* Both underlines are absent, or both are an explicit True.
C19_SameUnderline ==
    run1.underline = run2.underline /\ run1.underline \in {"None", "True"}

\* What C19 asks of the checks of one run pair that reported `reason`.
C19_Holds(reason) ==
    /\ C19_AbsentVsTrue => reason # "ok"
    /\ (C19_AbsentVsTrue /\ C19_OnlyUnderlineDiffers) =>
           reason = "Font underline mismatch"
    /\ C19_SameUnderline => reason # "Font underline mismatch"

\* C19: underline comparison of two runs: absent (None) against an explicit
\* True is a mismatch in either direction, while None against None and True
\* against True match; this holds for the runs of text shapes and for the
\* runs of table cells.
C19_UnderlineAbsentVsTrue ==
    /\ runReason \notin {"unset", "idle"} => C19_Holds(runReason)
    /\ cellReason \notin {"unset", "idle"} => C19_Holds(cellReason)

\* C19 witness: a test run with an explicit True underline has been compared
\* with a golden run without one, as a text-shape run and as a table-cell
\* run, and both comparisons reported the underline.
C19_Witness ==
    /\ run1.underline = "True" /\ run2.underline = "None"
    /\ C19_OnlyUnderlineDiffers
    /\ runReason = "Font underline mismatch"
    /\ cellReason = "Font underline mismatch"

(***************************************************************************)
(* Claims about whitespace in compared texts (SpecPair)                    *)
(***************************************************************************)

\* The paragraphs of a text frame with the whitespace of every run text
\* collapsed and trimmed.
C20_NormalizedParas(paras) ==
    [i \in 1..Len(paras) |->
        [paras[i] EXCEPT !.runs =
            [j \in 1..Len(paras[i].runs) |->
                [paras[i].runs[j] EXCEPT !.text = normalize_cell_text(@)]]]]

\* A shape with the whitespace of its texts (text frame and table cells)
\* collapsed and trimmed.
C20_Normalized(shape) ==
    [shape EXCEPT
        !.paras = C20_NormalizedParas(@),
        !.cells = [r \in 1..Len(shape.cells) |->
                      [c \in 1..Len(shape.cells[r]) |->
                          [paras |-> C20_NormalizedParas(shape.cells[r][c].paras)]]]]

\* The compared pair are two text boxes, or two tables, that differ in the
\* whitespace of their text at most.
C20_Case ==
    /\ pairPc = "done"
    /\ pairTest.type \in TEXT_SHAPE_TYPES \cup {"TABLE"}
    /\ C20_Normalized(pairTest) = C20_Normalized(pairGolden)

\* C20: whitespace is normalized before every text equality check: two
\* texts that differ only in the length or kind of whitespace runs or in
\* leading/trailing whitespace compare equal in the shape-text, the
\* paragraph-text and the table-cell-text checks, so that a slide pair whose
\* shapes differ in nothing else is accepted.
C20_WhitespaceNormalizedEverywhere ==
    C20_Case => pairOut.result = 1

(***************************************************************************)
(* Claims that relate the two run comparators (SpecRun)                    *)
(***************************************************************************)

\* C30: the underline verdict is the same in both run comparators: for every
\* pair of underline values from {None, False, True}, on runs that agree in
\* every other field, the table-cell run check of compare_table_shape reports
\* an underline mismatch iff the text-shape run check of compare_text_shape
\* reports one.
C30_SameUnderlineVerdict ==
    (/\ runReason \notin {"unset", "idle"}
     /\ cellReason \notin {"unset", "idle"}
     /\ C19_OnlyUnderlineDiffers) =>
        (cellReason = "Font underline mismatch"
            <=> runReason = "Font underline mismatch")

(***************************************************************************)
(* Claims about the types of matched pairs (SpecCmp)                       *)
(***************************************************************************)

\* The shape checks of the slide pair passed in the forward call, so that
\* every test shape of the slide has a golden shape paired with it.
C26_Case ==
    /\ cmpPc \in {"next", "done"}
    /\ fwd.result # 0
    /\ Len(pairing) = Len(shapes1)
    /\ \A i \in 1..Len(pairing) : pairing[i] \in 1..Len(shapes2)

\* C26 as stated: whenever the fuzzy-matching comparator returns Match, every
\* test shape was paired with a golden shape of the same shape type.
C26_PairsHaveSameType ==
    C26_Case =>
        \A i \in 1..Len(pairing) : shapes1[i].type = shapes2[pairing[i]].type

\* C26: whenever the fuzzy-matching comparator returns Match, every test
\* shape was paired with a golden shape of the same shape type, or of another
\* text-bearing type when the test shape is of a text-bearing type
\* (TEXT_BOX, AUTO_SHAPE, PLACEHOLDER).
C26_PairsHaveCompatibleType ==
    C26_Case =>
        \A i \in 1..Len(pairing) :
            \/ shapes1[i].type = shapes2[pairing[i]].type
            \/ /\ shapes1[i].type \in TEXT_SHAPE_TYPES
               /\ shapes2[pairing[i]].type \in TEXT_SHAPE_TYPES

\* C26 witness: the comparison returned 1 on a last slide that holds a
\* picture and a text box, paired with the golden shapes in the other order.
C26_Witness ==
    /\ C26_Case
    /\ cmpPc = "done" /\ fwd.result = 1
    /\ Len(shapes1) = 2
    /\ shapes1[1].type = "PICTURE" /\ shapes1[2].type = "TEXT_BOX"
    /\ pairing = <<2, 1>>


\* The distinct golden indices the match loop of the slide pair has used.
C27_UsedGoldenIndices == {pairing[i] : i \in 1..Len(pairing)} \ {-1}

\* C27: the 'golden shape(s) not matched' check can never fire: no call logs
\* its message, and on every path that reaches the check (the match loop of
\* the slide pair ended without returning 0) used_golden_indices holds
\* exactly len(golden_shapes) distinct indices.
C27_UnmatchedGoldenNeverFires ==
    /\ \A i \in 1..Len(fwd.log) : fwd.log[i] # "golden shape(s) not matched"
    /\ \A i \in 1..Len(rev.log) : rev.log[i] # "golden shape(s) not matched"
    /\ C26_Case => Cardinality(C27_UsedGoldenIndices) = Len(shapes2)

\* C27 witness: the match loop paired the two test shapes of a slide that
\* is not the last one with the two golden shapes, the check was reached with
\* two used golden indices, and the call went on to the next slide.
C27_Witness ==
    /\ cmpPc = "next" /\ fwd.result = -1
    /\ Len(shapes1) = 2 /\ Len(shapes2) = 2
    /\ Cardinality(C27_UsedGoldenIndices) = 2


\* The type class of a shape: the text-bearing types form one class, every
\* other type is a class of its own.
C28_TypeClass(shape) ==
    IF shape.type \in TEXT_SHAPE_TYPES THEN "text-bearing" ELSE shape.type

\* The number of shapes of a list in type class c.
C28_ClassCount(shapes, c) ==
    Cardinality({i \in 1..Len(shapes) : C28_TypeClass(shapes[i]) = c})

\* The two shape lists have the same multiset of type classes.
C28_SameClasses ==
    \A c \in {"text-bearing", "PICTURE", "TABLE", "GROUP"} :
        C28_ClassCount(shapes1, c) = C28_ClassCount(shapes2, c)

\* The pairing loop of the slide pair found no golden shape for a test shape.
C28_NoMatchReported ==
    /\ cmpPc \in {"next", "done"}
    /\ pairing # <<>>
    /\ pairing[Len(pairing)] = -1

\* C28: on a slide with equal shape counts, the pairing loop reports 'No
\* matching shape found' only if the multiset of type classes of the test
\* shapes differs from that of the golden shapes; differences in text, image
\* hash or position alone never cause a matching failure.
C28_NoMatchOnlyOnClassDifference ==
    C28_NoMatchReported =>
        /\ Len(shapes1) = Len(shapes2)
        /\ ~C28_SameClasses

\* C28 witness: on a slide pair of two shapes each, the first test shape was
\* paired and no golden shape was left for the type class of the second.
C28_Witness ==
    /\ C28_NoMatchReported
    /\ Len(shapes1) = 2 /\ Len(shapes2) = 2
    /\ pairing = <<1, -1>>
    /\ fwd.result = 0
    /\ fwd.log[Len(fwd.log)] = "No matching shape found"

(***************************************************************************)
(* Claims about the bullet descriptors and about failing extractions       *)
(* (SpecPair)                                                              *)
(***************************************************************************)

\* A paragraph without an indent level set (no a:pPr element, or no lvl
\* attribute on it), or with level "0".
C25_LevelUnsetOrZero(para) == ~para.pPr \/ para.lvl \in {"None", "0"}

\* The compared pair are two text boxes of one non-empty paragraph each, of
\* equal text and equal bullet character, both without a level or at level
\* "0", on slide parts the bullet extraction can parse.
C25_Case ==
    /\ pairPc = "done"
    /\ pairBlob1 /\ pairBlob2
    /\ pairTest \in PairBulletShapes /\ pairGolden \in PairBulletShapes
    /\ ParaText(pairTest.paras[1].runs) = ParaText(pairGolden.paras[1].runs)
    /\ pairTest.paras[1].buChar = pairGolden.paras[1].buChar
    /\ C25_LevelUnsetOrZero(pairTest.paras[1])
    /\ C25_LevelUnsetOrZero(pairGolden.paras[1])

\* C25: in bullet-descriptor comparison an absent indent level is equivalent
\* to level "0": two non-empty paragraphs with equal text and equal bullet
\* character compare equal whenever each of them either has no level set (no
\* lvl attribute, or no paragraph-properties element at all) or has level
\* "0", so that no bullets mismatch is reported for them.
C25_AbsentLevelIsZero ==
    C25_Case =>
        \A i \in 1..Len(pairOut.log) : pairOut.log[i] # "Bullets mismatch"


\* Computing the image hash of the compared pair raises: two pictures, one of
\* them with an unreadable image.
C24_HashRaises ==
    /\ pairTest.type = "PICTURE" /\ pairGolden.type = "PICTURE"
    /\ (pairTest.hash = "ERR" \/ pairGolden.hash = "ERR")

\* Extracting the bullets of the compared pair raises: two text boxes on
\* slide parts of which one cannot be parsed.
C24_BulletsRaise ==
    /\ pairTest \in PairBulletShapes /\ pairGolden \in PairBulletShapes
    /\ (~pairBlob1 \/ ~pairBlob2)

\* The two pictures agree in everything but the image.
C24_OnlyImageDiffers ==
    [pairTest EXCEPT !.hash = ""] = [pairGolden EXCEPT !.hash = ""]

\* The two text boxes agree in everything but what only the bullet
\* extraction reads: the bullet character, and whether a level 0 is written
\* or left out.
C24_OnlyBulletsDiffer ==
    /\ [pairTest EXCEPT !.paras = <<>>] = [pairGolden EXCEPT !.paras = <<>>]
    /\ pairTest.paras[1].runs = pairGolden.paras[1].runs
    /\ pairTest.paras[1].algn = pairGolden.paras[1].algn
    /\ ParaLevel(pairTest.paras[1]) = ParaLevel(pairGolden.paras[1])

\* The messages of the two checks an extraction failure affects.
C24_AffectedMessages ==
    {"PICTURE: Image hash comparison failed", "PICTURE: Image content mismatch",
     "Bullets mismatch"}

\* C24: an extraction failure never terminates or fails a comparison: if
\* computing an image hash or extracting bullets raises, the affected check
\* is skipped (a returned 0 is never that of the affected check), the
\* remaining checks still run, and the comparison returns 1 when all
\* remaining checks pass.
C24_ExtractionFailureNeverFails ==
    (pairPc = "done" /\ (C24_HashRaises \/ C24_BulletsRaise)) =>
        /\ pairOut.result \in {0, 1}
        /\ pairOut.result = 0 =>
              pairOut.log[Len(pairOut.log)] \notin C24_AffectedMessages
        /\ (C24_HashRaises /\ C24_OnlyImageDiffers) => pairOut.result = 1
        /\ (C24_BulletsRaise /\ C24_OnlyBulletsDiffer) => pairOut.result = 1
        /\ (C24_HashRaises /\ pairTest.line # pairGolden.line) =>
              pairOut.result = 0

\* C24 witness: a picture with an unreadable image has been compared with a
\* picture of a readable image and the same border, and the comparison
\* returned 1 with the failure logged.
C24_Witness ==
    /\ pairPc = "done"
    /\ C24_HashRaises /\ C24_OnlyImageDiffers
    /\ pairTest.hash = "ERR" /\ pairGolden.hash = "h1"
    /\ pairOut.result = 1
    /\ pairOut.log # <<>>

\* C24 second case reached: text boxes that differ in their bullet character
\* have been compared on a slide part that cannot be parsed, and the
\* comparison returned 1.
C24_BulletsSkipped ==
    /\ pairPc = "done"
    /\ C24_BulletsRaise /\ C24_OnlyBulletsDiffer
    /\ pairTest.paras[1].buChar # pairGolden.paras[1].buChar
    /\ pairOut.result = 1

(***************************************************************************)
(* Claims about the batch loop (SpecBatch)                                 *)
(***************************************************************************)

\* The messages the comparison of the k-th file can produce.
C29_MessagesOf(k) == {Msg(k, kind) : kind \in {"warning", "mismatch", "exception"}}

\* C29: per-comparison isolation of the mismatch log across a batch: for any
\* sequence of run_evaluator calls, the reason reported for the k-th file is
\* produced by the k-th comparison only (None when it logged nothing, the
\* message of its exception when it raised), never a message left over from
\* an earlier file.
C29_ReasonIsOfOwnComparison ==
    \A k \in 1..Len(batchReports) :
        /\ batchReports[k].reason \in C29_MessagesOf(k) \cup {"None"}
        /\ batchReports[k].reason = "None" <=>
              (batchDone[k].ending = "match" /\ batchDone[k].nWarn = 0)
        /\ batchDone[k].ending = "raise" =>
              batchReports[k] = [result |-> 0, reason |-> Msg(k, "exception")]

\* C29 witness: the first file failed with a logged mismatch, the second file
\* matched without logging anything and no reason is reported for it, and the
\* third file raised.
C29_Witness ==
    /\ Len(batchReports) = 3
    /\ batchDone[1].ending = "mismatch"
    /\ batchReports[1].reason = Msg(1, "mismatch")
    /\ batchDone[2] = [nWarn |-> 0, ending |-> "match"]
    /\ batchReports[2] = [result |-> 1, reason |-> "None"]
    /\ batchDone[3].ending = "raise"
    /\ mismatch_log = <<>>

(***************************************************************************)
(* Claims about the comment checks of the main block (SpecMain)            *)
(***************************************************************************)

\* The run ended after all checks before the comment placement check passed:
\* it printed SUCCESS or the code of the placement check.
C23_ReachedPlacementCheck ==
    /\ mainPc = "exit"
    /\ stdout \in {<<"SUCCESS">>, <<"FAIL_COMMENT_PLACEMENT_CHANGED">>}

\* The candidate has the comments of the golden document (count, text,
\* author, order) and some comment is anchored to another paragraph.
C23_ReAnchored ==
    /\ actual_doc.comments = golden_doc.comments
    /\ \E j \in 1..Len(golden_doc.anchors) :
          actual_doc.anchors[j] # golden_doc.anchors[j]

\* C23: comment re-anchoring is detected: if the candidate has the same
\* comments (count, text, author, order) as the golden but some comment is
\* anchored to a different paragraph than in the golden, the evaluator
\* outputs FAIL_COMMENT_PLACEMENT_CHANGED (given all earlier checks pass),
\* for any number of comments and paragraphs.
C23_ReAnchoringDetected ==
    (C23_ReachedPlacementCheck /\ C23_ReAnchored) =>
        stdout = <<"FAIL_COMMENT_PLACEMENT_CHANGED">>

(***************************************************************************)
(* Claims about the fill/outline-aware comparator (SpecFill)               *)
(***************************************************************************)

\* The set of the values of a list.
C21_Values(found) == {found[i] : i \in 1..Len(found)}

\* The test shape was matched with the golden shape, so that the fill check,
\* the first check of the pair, has run.
C21_FillChecked ==
    /\ fillPc = "done"
    /\ fillOut.log # <<"No matching shape">>

\* compare_shape_fill returned True: none of its messages is logged.
C21_FillAccepted ==
    \A i \in 1..Len(fillOut.log) :
        fillOut.log[i] \notin {"Fill color mismatch", "Transparency mismatch",
                               "Scheme color mismatch"}

\* C21: fill equality is a set comparison: compare_shape_fill accepts two
\* shapes iff the set of RGB literals, the set of alpha values and the set of
\* scheme-color references found in shape 1 equal the corresponding sets of
\* shape 2, independent of the order and of the number of occurrences of
\* each value.
C21_FillIsSetComparison ==
    C21_FillChecked =>
        (C21_FillAccepted <=>
            /\ C21_Values(fillTest.rgb) = C21_Values(fillGolden.rgb)
            /\ C21_Values(fillTest.alpha) = C21_Values(fillGolden.alpha)
            /\ C21_Values(fillTest.scheme) = C21_Values(fillGolden.scheme))


\* The message of a check: what it logged when it returned 0.
C22_Msg(ret) == IF ret.result = 0 THEN ret.log[Len(ret.log)] ELSE "ok"

\* The outcome of the fill check, of the outline check and of the
\* type-specific, geometry and text checks on the compared pair, each taken
\* alone.
C22_Fill == compare_shape_fill(fillTest, fillGolden)
C22_Outline == compare_shape_outline(fillTest.shape, fillGolden.shape)
C22_Content ==
    C22_Msg(compare_pair_content(fillTest.shape, fillGolden.shape,
                                 [blob_ok |-> TRUE, shapes |-> <<fillTest.shape>>],
                                 [blob_ok |-> TRUE, shapes |-> <<fillGolden.shape>>]))

\* The pair differs in geometry and in fill.
C22_GeometryAndFillDiffer ==
    /\ fillTest.shape.type = "TEXT_BOX" /\ fillGolden.shape.type = "TEXT_BOX"
    /\ fillTest.shape.width # fillGolden.shape.width
    /\ C21_Values(fillTest.rgb) # C21_Values(fillGolden.rgb)

\* The reported reason is the first message of `order` that is not "ok".
C22_ReportsFirstOf(order) ==
    /\ fillOut.result = 0 <=> FirstNotOk(order) # "ok"
    /\ fillOut.result = 0 => fillOut.log = <<FirstNotOk(order)>>

\* C22 as stated: for each matched shape pair of the fill/outline-aware
\* comparator the checks run in the order picture/table-specific checks,
\* geometry, text, then fill, then outline, so that the reported reason is
\* that of the first failing check in this order (a pair differing in both
\* geometry and fill is reported as a geometry mismatch).
C22_FillAndOutlineLast ==
    C21_FillChecked =>
        /\ C22_ReportsFirstOf(<<C22_Content, C22_Fill, C22_Outline>>)
        /\ C22_GeometryAndFillDiffer => fillOut.log = <<"Geometry mismatch">>

\* C22: for each matched shape pair of the fill/outline-aware comparator the
\* checks run in the order fill, outline, picture/table-specific checks,
\* geometry, text, so that the reported reason is that of the first failing
\* check in this order (a pair differing in both geometry and fill is
\* reported as a fill mismatch).
C22_FillAndOutlineFirst ==
    C21_FillChecked =>
        /\ C22_ReportsFirstOf(<<C22_Fill, C22_Outline, C22_Content>>)
        /\ C22_GeometryAndFillDiffer => fillOut.log = <<"Fill color mismatch">>

\* C22 witness: two text boxes that differ in width and in their RGB
\* literals have been compared and the fill mismatch is the reported reason.
C22_Witness ==
    /\ C21_FillChecked
    /\ C22_GeometryAndFillDiffer
    /\ C22_Content = "Geometry mismatch"
    /\ fillOut = [result |-> 0, log |-> <<"Fill color mismatch">>]

=============================================================================
